---- MODULE Spec2Model ----
(***************************************************************************)
(* State-machine builder of regex-backend (state_machine_internal/         *)
(* builder.h): the node store, the construction cursors, the combinators,  *)
(* the optimizer passes and the runtime queries matches / find / find_many.*)
(***************************************************************************)
EXTENDS Integers, Sequences, FiniteSets, TLC

VARIABLES
  m_nodes,      \* the node store, a sequence of nodes addressed from 1
  cursors,      \* construction_state.cursors
  on_conflict,  \* construction_state.on_conflict
  is_utf8,      \* IS_UTF8: Transition_T is char32_t
  err,          \* "ok", or how the program ended: "panic", "assert", "ub"
  lastop,       \* history: the public builder method that returned last
  lastarg,      \* history: the argument of that call, as a sequence
  calls,        \* history: number of builder calls made
  plain_bb,     \* history: -2 once a call other than root/match_sequence/
                \*   match_any_of/exit_point(same back_by) was made, -1 while
                \*   no exit_point was called, else the back_by used
  front,        \* history: the strings written from root to the cursors
  lang,         \* history: the strings written up to an exit_point
  uv,           \* a utf_validator at work: the bytes it is given, the position
                \*   of the next one, its count, the error it returned last
                \*   and the method that returned it
  gen,          \* a loop over find_many(input): the iterator (data as the
                \*   offsets [from, to), next, and whether a range left the
                \*   input), the results yielded and where the loop stands
  opt           \* an optimize() call at work: the loop it is in and the
                \*   locals `nulls` and `reachables` of that loop

vars == <<m_nodes, cursors, on_conflict, is_utf8, err, lastop, lastarg, calls,
          plain_bb, front, lang, uv, gen, opt>>

---------------------------------------------------------------------------
(* Bounds of the model *)

MaxNodes == 9
MaxCalls == 3
MaxPlainCalls == 5
MaxFindCalls == 3
MaxConflictCalls == 6
MaxEofCalls == 3
MaxDefaultCalls == 7
MaxLoopCalls == 3
MaxOptimizeCalls == 4
MaxContinuedCalls == 8
MaxLoopBackBy == 2
MaxLen == 3
MaxBackBy == 1

---------------------------------------------------------------------------
(* Keys, nodes and the node store (node.h, node_store.h) *)

Eof == 0 - 2
Def == 0 - 1

\* The concrete symbols the model uses, as byte values:
\* a b c d e f i o x y, and the bytes 0x83 0x8E 0xA9 0xC3 0xEC.
Sigma == {97, 98, 99, 100, 101, 102, 105, 111, 120, 121, 131, 142, 169, 195,
          236}

\* Iteration order of a node's transition container.
KeySeq == <<97, 98, 99, 100, 101, 102, 105, 111, 120, 121, 131, 142, 169,
            195, 236, Def, Eof>>

Keys == {KeySeq[i] : i \in DOMAIN KeySeq}

NoVal == 0 - 1

\* A node: child index per key (0 = absent) and the accept record
\* (NoVal, or its back_by).
NullNode == [tr |-> [k \in Keys |-> 0], val |-> NoVal]

is_null(n) == n.val = NoVal /\ \A k \in Keys : n.tr[k] = 0

Range(s) == {s[i] : i \in DOMAIN s}

has_value(n) == n.val # NoVal

\* rt_get_transition: the concrete key first, else the default edge.
rt_get_transition(n, sym) ==
  IF sym \in Sigma /\ n.tr[sym] # 0 THEN n.tr[sym] ELSE n.tr[Def]

new_node(ns) == Append(ns, NullNode)

has_cursor(cs, index) == \E i \in DOMAIN cs : cs[i] = index

is_deletable_node(ns, cs, index) ==
  /\ index # 1
  /\ is_null(ns[index])
  /\ ~has_cursor(cs, index)

\* MUTILS_ASSERT_LTE / MUTILS_ASSERT_NEQ of get_node
get_node_ok(ns, index) == index # 0 /\ index <= Len(ns)

---------------------------------------------------------------------------
(* UTF-8 validator *)

countl_one(byte) ==
  IF byte < 128 THEN 0
  ELSE IF byte < 192 THEN 1
  ELSE IF byte < 224 THEN 2
  ELSE IF byte < 240 THEN 3
  ELSE IF byte < 248 THEN 4
  ELSE IF byte < 252 THEN 5
  ELSE IF byte < 254 THEN 6
  ELSE IF byte < 255 THEN 7
  ELSE 8

\* a validator whose header byte sets the count to the length of the whole
\* sequence, the header included
uv_next_full_length(count, c) ==
  IF c >= 192 /\ count = 0
  THEN [error |-> "None", count |-> countl_one(c)]
  ELSE IF c >= 192
  THEN [error |-> "OverlappingSequence", count |-> count]
  ELSE IF c >= 128
  THEN [error |-> IF count = 0 THEN "StrayByte" ELSE "None",
        count |-> IF count = 0 THEN 0 ELSE count - 1]
  ELSE [error |-> IF count # 0 THEN "InterruptedSequence" ELSE "None",
        count |-> count]

\* utf_validator::next: the error (or "None") and the new count
uv_next(count, c) ==
  IF c >= 128
  THEN LET is_header == (c \div 64) % 4 = 3 IN
       IF is_header /\ count # 0
       THEN [error |-> "OverlappingSequence", count |-> count]
       ELSE IF ~is_header /\ count = 0
       THEN [error |-> "StrayByte", count |-> count]
       ELSE IF is_header
       THEN [error |-> "None", count |-> countl_one(c) - 1]
       ELSE [error |-> "None", count |-> count - 1]
  ELSE [error |-> IF count # 0 THEN "InterruptedSequence" ELSE "None",
        count |-> count]

uv_final(count) == IF count # 0 THEN "TruncatedSequence" ELSE "None"

---------------------------------------------------------------------------
(* Runtime: matches, find, find_many *)

\* Results of matches: "true", "false" or "error".
RECURSIVE matches_loop(_, _, _, _, _, _)
matches_loop(ns, utf, input, i, current, count) ==
  IF i > Len(input)
  THEN [kind |-> "end", current |-> current, count |-> count]
  ELSE LET next == rt_get_transition(ns[current], input[i])
           v == IF utf THEN uv_next(count, input[i])
                ELSE [error |-> "None", count |-> count]
       IN IF v.error # "None"
          THEN [kind |-> "error", current |-> current, count |-> count]
          ELSE IF next # 0
          THEN matches_loop(ns, utf, input, i + 1, next, v.count)
          ELSE [kind |-> "false", current |-> current, count |-> count]

\* matches without the final Eof step
matches_no_eof(ns, utf, include_eof, input) ==
  LET r == matches_loop(ns, utf, input, 1, 1, 0) IN
  IF r.kind # "end" THEN r.kind
  ELSE IF utf /\ uv_final(r.count) # "None" THEN "error"
  ELSE IF has_value(ns[r.current]) THEN "true" ELSE "false"

matches(ns, utf, include_eof, input) ==
  LET r == matches_loop(ns, utf, input, 1, 1, 0) IN
  IF r.kind # "end" THEN r.kind
  ELSE IF utf /\ uv_final(r.count) # "None" THEN "error"
  ELSE LET eof == ns[r.current].tr[Eof]
           final == IF include_eof THEN eof ELSE r.current
       IN IF final = 0 THEN "false"
          ELSE IF has_value(ns[final]) THEN "true" ELSE "false"

\* Result of find: kind is "match", "nomatch" or "error"; for a match,
\* [b, e) are offsets into the input (e after back_by was subtracted),
\* raw_e is match_end before the subtraction, node is the accepting node and
\* back_by its accept record. match_end is a size_t: a negative e stands
\* for the wrapped value 2^64 + e.
NoMatch == [kind |-> "nomatch", b |-> 0, e |-> 0, raw_e |-> 0, node |-> 0,
            back_by |-> 0]

FindError == [kind |-> "error", b |-> 0, e |-> 0, raw_e |-> 0, node |-> 0,
              back_by |-> 0]

\* a find that reports match_end without subtracting back_by
find_yield_raw(ns, most_specific, match_begin, match_end) ==
  IF most_specific # 0
  THEN [kind |-> "match", b |-> match_begin, e |-> match_end,
        raw_e |-> match_end, node |-> most_specific,
        back_by |-> ns[most_specific].val]
  ELSE NoMatch

find_yield(ns, most_specific, match_begin, match_end) ==
  IF most_specific # 0
  THEN [kind |-> "match", b |-> match_begin,
        e |-> match_end - ns[most_specific].val,
        raw_e |-> match_end, node |-> most_specific,
        back_by |-> ns[most_specific].val]
  ELSE NoMatch

find_after_loop(ns, utf, count, most_specific, match_begin, match_end) ==
  IF utf /\ uv_final(count) # "None" THEN FindError
  ELSE find_yield(ns, most_specific, match_begin, match_end)

\* a find that stops at the first accepting node it enters
RECURSIVE find_loop_first(_, _, _, _, _, _, _, _, _)
find_loop_first(ns, utf, input, i, current, most_specific, match_begin, match_end, count) ==
  IF i > Len(input)
  THEN find_after_loop(ns, utf, count, most_specific, match_begin, match_end)
  ELSE LET v == IF utf THEN uv_next(count, input[i])
                ELSE [error |-> "None", count |-> count]
           loc == rt_get_transition(ns[current], input[i])
       IN IF v.error # "None" THEN FindError
          ELSE IF loc # 0
          THEN IF has_value(ns[loc])
               THEN find_after_loop(ns, utf, v.count, loc, match_begin, i)
               ELSE find_loop_first(ns, utf, input, i + 1, loc, most_specific,
                                    match_begin, match_end, v.count)
          ELSE IF most_specific = 0
          THEN find_loop_first(ns, utf, input, i + 1, 1, 0, i, i, v.count)
          ELSE find_after_loop(ns, utf, v.count, most_specific, match_begin,
                               match_end)

\* One iteration of the scanning loop at (1-based) position i; offsets are
\* 0-based as in the source, so "i + 1" there is i here.
RECURSIVE find_loop(_, _, _, _, _, _, _, _, _)
find_loop(ns, utf, input, i, current, most_specific, match_begin, match_end, count) ==
  IF i > Len(input)
  THEN find_after_loop(ns, utf, count, most_specific, match_begin, match_end)
  ELSE LET v == IF utf THEN uv_next(count, input[i])
                ELSE [error |-> "None", count |-> count]
           loc == rt_get_transition(ns[current], input[i])
       IN IF v.error # "None" THEN FindError
          ELSE IF loc # 0
          THEN IF has_value(ns[loc])
               THEN find_loop(ns, utf, input, i + 1, loc, loc, match_begin, i,
                              v.count)
               ELSE find_loop(ns, utf, input, i + 1, loc, most_specific,
                              match_begin, match_end, v.count)
          ELSE IF most_specific = 0
          THEN find_loop(ns, utf, input, i + 1, 1, 0, i, i, v.count)
          ELSE find_after_loop(ns, utf, v.count, most_specific, match_begin,
                               match_end)

find(ns, utf, input) == find_loop(ns, utf, input, 1, 1, 0, 0, 0, 0)

\* find_many: the iterator holds `data` (here the offsets [from, to) into
\* the input) and `next`; begin() has run load_next once, end() has empty
\* data, and operator!= compares the sizes of `data`.
Shift(r, off) ==
  IF r.kind = "match"
  THEN [r EXCEPT !.b = r.b + off, !.e = r.e + off,
                 !.raw_e = r.raw_e + off]
  ELSE r

\* std::span is built from the two iterators; its size is their difference.
range_size(r) == IF r.kind = "match" THEN r.e - r.b ELSE 0

\* load_next: the find result on data, and the new data; "ub" when the
\* reported range lies outside data.
load_next(ns, utf, input, from, to) ==
  LET r == Shift(find(ns, utf, SubSeq(input, from + 1, to)), from) IN
  IF range_size(r) = 0 THEN [next |-> r, from |-> 0, to |-> 0, ub |-> FALSE]
  ELSE IF r.e > to \/ r.e < r.b
  THEN [next |-> r, from |-> 0, to |-> 0, ub |-> TRUE]
  ELSE [next |-> r, from |-> r.e, to |-> to, ub |-> FALSE]

\* for (auto it = g.begin(); it != g.end(); ++it) yield *it
RECURSIVE find_many_iter(_, _, _, _, _)
find_many_iter(ns, utf, input, it, fuel) ==
  IF it.ub THEN [out |-> <<>>, ub |-> TRUE]
  ELSE IF it.to - it.from = 0 \/ fuel = 0 THEN [out |-> <<>>, ub |-> FALSE]
  ELSE LET rest == find_many_iter(ns, utf, input,
                     load_next(ns, utf, input, it.from, it.to), fuel - 1)
       IN [out |-> <<it.next>> \o rest.out, ub |-> rest.ub]

find_many(ns, utf, input) ==
  find_many_iter(ns, utf, input, load_next(ns, utf, input, 0, Len(input)),
                 Len(input) + 1)

---------------------------------------------------------------------------
(* Builder primitives. A machine is [nodes, cursors, err]; an operation   *)
(* on a machine whose err is not "ok" is never started (the program has   *)
(* ended). err = "big" marks a result cut off by the bounds of the model. *)

Machine(ns, cs, e) == [nodes |-> ns, cursors |-> cs, err |-> e]

Fresh == Machine(<<NullNode>>, <<1>>, "ok")

\* a write of the transition that also writes the same key of the target
SetTr_and_target(ns, idx, key, v) ==
  IF v \in 1..Len(ns) THEN [ns EXCEPT ![idx].tr[key] = v, ![v].tr[key] = v]
  ELSE [ns EXCEPT ![idx].tr[key] = v]

SetTr(ns, idx, key, v) == [ns EXCEPT ![idx].tr[key] = v]

\* a field-by-field copy of node `from` into slot `into`
CopyNode(ns, into, from) == [ns EXCEPT ![into] = ns[from]]

cursors_ok(ns, cs) == \A i \in DOMAIN cs : get_node_ok(ns, cs[i])

\* make_nonambiguous_link(from, transition, to, watch_nodes): the new store
\* and the replacements. `fuel` bounds the depth of the recursion.
RECURSIVE make_nonambiguous_link(_, _, _, _, _, _, _)
RECURSIVE mnl_transitions(_, _, _, _, _, _, _, _, _)

\* the loop over get_node(to).get_transitions(), from position ki of KeySeq
mnl_transitions(ns, oc, nidx, current_target, to, watch, ki, tracked, fuel) ==
  IF ki > Len(KeySeq)
  THEN [nodes |-> ns, repl |-> tracked, err |-> "ok"]
  ELSE LET key == KeySeq[ki]
           reference == ns[to].tr[key]
           node_transition == ns[nidx].tr[key]
       IN IF node_transition = nidx /\ reference = 0
          THEN mnl_transitions(SetTr(ns, nidx, key, current_target), oc, nidx,
                               current_target, to, watch, ki + 1, tracked, fuel)
          ELSE IF reference = to /\ node_transition = 0
          THEN mnl_transitions(SetTr(ns, nidx, key, current_target), oc, nidx,
                               current_target, to, watch, ki + 1, tracked, fuel)
          ELSE IF reference = to /\ node_transition = nidx
          THEN mnl_transitions(ns, oc, nidx, current_target, to, watch, ki + 1,
                               tracked, fuel)
          ELSE IF reference = 0
          THEN mnl_transitions(ns, oc, nidx, current_target, to, watch, ki + 1,
                               tracked, fuel)
          ELSE LET res == make_nonambiguous_link(ns, oc, nidx, key, reference,
                                                 watch, fuel - 1)
               IN IF res.err # "ok" THEN res
                  ELSE mnl_transitions(res.nodes, oc, nidx, current_target, to,
                                       watch, ki + 1, tracked \o res.repl, fuel)

make_nonambiguous_link(ns, oc, from, transition, to, watch, fuel) ==
  IF to = 0 \/ ~get_node_ok(ns, from)
  THEN [nodes |-> ns, repl |-> <<>>, err |-> "assert"]
  ELSE LET current_target == ns[from].tr[transition] IN
  IF current_target = 0
  THEN [nodes |-> SetTr(ns, from, transition, to), repl |-> <<>>, err |-> "ok"]
  ELSE IF current_target = to
  THEN [nodes |-> ns, repl |-> <<>>, err |-> "ok"]
  ELSE IF ~get_node_ok(ns, current_target) \/ ~get_node_ok(ns, to)
  THEN [nodes |-> ns, repl |-> <<>>, err |-> "assert"]
  ELSE IF fuel = 0 \/ Len(ns) >= MaxNodes
  THEN [nodes |-> ns, repl |-> <<>>, err |-> "big"]
  ELSE
    LET nidx == Len(ns) + 1
        old == ns[current_target]
        \* clone the current target, self-references fixed
        clone_tr == [k \in Keys |->
                       IF old.tr[k] = current_target THEN nidx ELSE old.tr[k]]
        tracked == IF to \in Range(watch) \/ current_target \in Range(watch)
                   THEN <<nidx>> ELSE <<>>
        to_node == ns[to]
        collide == has_value(to_node) /\ old.val # NoVal
        clone_val == IF has_value(to_node)
                        /\ (old.val = NoVal \/ oc = "Overwrite")
                     THEN to_node.val ELSE old.val
        ns1 == Append(ns, [tr |-> clone_tr, val |-> clone_val])
    IN IF collide /\ oc = "Error"
       THEN [nodes |-> ns, repl |-> <<>>, err |-> "panic"]
       ELSE LET r == mnl_transitions(ns1, oc, nidx, current_target, to, watch,
                                     1, tracked, fuel)
            IN IF r.err # "ok" THEN r
               ELSE [nodes |-> SetTr(r.nodes, from, transition, nidx),
                     repl |-> r.repl, err |-> "ok"]

\* get_node(cur).transition(key) = v for every cur of cs
RECURSIVE LinkAll(_, _, _, _, _)
LinkAll(ns, cs, i, key, v) ==
  IF i > Len(cs) THEN ns
  ELSE LinkAll(SetTr(ns, cs[i], key, v), cs, i + 1, key, v)

RECURSIVE Children(_, _, _, _)
Children(ns, cs, i, key) ==
  IF i > Len(cs) THEN <<>>
  ELSE <<ns[cs[i]].tr[key]>> \o Children(ns, cs, i + 1, key)

\* cursor_transition(child)
cursor_transition(m, child) ==
  IF ~cursors_ok(m.nodes, m.cursors) THEN [m EXCEPT !.err = "assert"]
  ELSE
    LET ns == m.nodes
        without == SelectSeq(m.cursors, LAMBDA c : ns[c].tr[child] = 0)
        with == SelectSeq(m.cursors, LAMBDA c : ns[c].tr[child] # 0)
        goes_to_idx == Len(ns) + 1
        ns1 == IF without = <<>> THEN ns
               ELSE LinkAll(new_node(ns), without, 1, child, goes_to_idx)
        head == IF without = <<>> THEN <<>> ELSE <<goes_to_idx>>
    IN Machine(ns1, head \o Children(ns1, with, 1, child), "ok")

\* cursor_discreet_transition: the loop over cursors_with_child
RECURSIVE cdt_with_child(_, _, _, _, _)
cdt_with_child(ns, transition, cs, i, new_cursors) ==
  IF i > Len(cs) THEN [nodes |-> ns, new_cursors |-> new_cursors]
  ELSE LET cursor == cs[i]
           old_target == ns[cursor].tr[transition]
           inter_idx == Len(ns) + 1
           ns1 == Append(ns, ns[old_target])
           ns2 == IF old_target = cursor
                  THEN SetTr(ns1, inter_idx, transition, inter_idx) ELSE ns1
           ns3 == SetTr(ns2, cursor, transition, inter_idx)
       IN cdt_with_child(ns3, transition, cs, i + 1,
                         Append(new_cursors, inter_idx))

\* cursor_discreet_transition: the loop over cursors_with_default;
\* tasks are the CloneInfo records <<node, clone_from>>
RECURSIVE cdt_with_default(_, _, _, _, _, _, _)
cdt_with_default(ns, oc, transition, cs, i, new_cursors, tasks) ==
  IF i > Len(cs)
  THEN [nodes |-> ns, new_cursors |-> new_cursors, tasks |-> tasks,
        err |-> "ok"]
  ELSE LET cursor == cs[i]
           old_transition == ns[cursor].tr[transition]
           default_idx == ns[cursor].tr[Def]
       IN IF old_transition # 0
          THEN LET r == make_nonambiguous_link(ns, oc, cursor, transition,
                                               default_idx, <<default_idx>>,
                                               MaxNodes)
               IN IF r.err # "ok"
                  THEN [nodes |-> ns, new_cursors |-> new_cursors,
                        tasks |-> tasks, err |-> r.err]
                  ELSE IF Len(r.repl) = 0
                  THEN [nodes |-> ns, new_cursors |-> new_cursors,
                        tasks |-> tasks, err |-> "assert"]
                  ELSE cdt_with_default(r.nodes, oc, transition, cs, i + 1,
                                        Append(new_cursors, r.repl[1]), tasks)
          ELSE LET intermediary == Len(ns) + 1
                   ns1 == SetTr(new_node(ns), cursor, transition, intermediary)
               IN cdt_with_default(ns1, oc, transition, cs, i + 1,
                                   Append(new_cursors, intermediary),
                                   Append(tasks, <<intermediary, default_idx>>))

RECURSIVE cdt_clone_tasks(_, _, _)
cdt_clone_tasks(ns, tasks, i) ==
  IF i > Len(tasks) THEN ns
  ELSE cdt_clone_tasks(CopyNode(ns, tasks[i][1], tasks[i][2]), tasks, i + 1)

\* a transition that shares an existing child instead of cloning it
cursor_discreet_transition_shared(m, oc, transition) ==
  cursor_transition(m, transition)

cursor_discreet_transition(m, oc, transition) ==
  IF ~cursors_ok(m.nodes, m.cursors) THEN [m EXCEPT !.err = "assert"]
  ELSE
    LET ns == m.nodes
        with_default == SelectSeq(m.cursors, LAMBDA c : ns[c].tr[Def] # 0)
        without_child == SelectSeq(m.cursors, LAMBDA c :
                           ns[c].tr[Def] = 0 /\ ns[c].tr[transition] = 0)
        with_child == SelectSeq(m.cursors, LAMBDA c :
                           ns[c].tr[Def] = 0 /\ ns[c].tr[transition] # 0)
        default_idx == Len(ns) + 1
        ns1 == IF without_child = <<>> THEN ns
               ELSE LinkAll(new_node(ns), without_child, 1, transition,
                            default_idx)
        nc1 == IF without_child = <<>> THEN <<>> ELSE <<default_idx>>
        r2 == cdt_with_child(ns1, transition, with_child, 1, nc1)
        r3 == cdt_with_default(r2.nodes, oc, transition, with_default, 1,
                               r2.new_cursors, <<>>)
    IN IF r3.err # "ok" THEN [m EXCEPT !.err = r3.err]
       ELSE Machine(cdt_clone_tasks(r3.nodes, r3.tasks, 1), r3.new_cursors,
                    "ok")

---------------------------------------------------------------------------
(* Combinators *)

root(m) == [m EXCEPT !.cursors = <<1>>]

\* match_default: the loop over the cursors
RECURSIVE match_default_loop(_, _, _, _, _, _, _)
match_default_loop(ns, oc, cs, i, default_node_idx, new_cursors, errors) ==
  IF i > Len(cs)
  THEN [nodes |-> ns, new_cursors |-> new_cursors, errors |-> errors]
  ELSE LET cursor == cs[i]
           deflt == ns[cursor].tr[Def]
       IN IF deflt = 0
          THEN match_default_loop(SetTr(ns, cursor, Def, default_node_idx), oc,
                                  cs, i + 1, default_node_idx, new_cursors,
                                  errors)
          ELSE IF oc = "Skip"
          THEN match_default_loop(ns, oc, cs, i + 1, default_node_idx,
                                  Append(new_cursors, deflt), errors)
          ELSE IF oc = "Overwrite"
          THEN match_default_loop(SetTr(ns, cursor, Def, default_node_idx), oc,
                                  cs, i + 1, default_node_idx, new_cursors,
                                  errors)
          ELSE match_default_loop(ns, oc, cs, i + 1, default_node_idx,
                                  new_cursors, errors + 1)

match_default(m, oc) ==
  LET ns0 == new_node(m.nodes)
      default_node_idx == Len(ns0)
  IN IF ~cursors_ok(ns0, m.cursors) THEN [m EXCEPT !.err = "assert"]
     ELSE LET r == match_default_loop(ns0, oc, m.cursors, 1, default_node_idx,
                                      <<default_node_idx>>, 0)
          IN IF r.errors # 0 THEN [m EXCEPT !.err = "panic"]
             ELSE Machine(r.nodes, r.new_cursors, "ok")

match_eof(m) == cursor_transition(m, Eof)

\* The bytes match_any_of walks for one choice of a UTF-8 machine, or
\* <<-1>> where MUTILS_ASSERT((key & 128) == 0) fails.
drop_mask(byte) == IF (byte \div 64) % 2 = 1 THEN byte - 64 ELSE byte

utf8_keys(key) ==
  LET b3 == (key \div 16777216) % 256
      b2 == (key \div 65536) % 256
      b1 == (key \div 256) % 256
      b0 == key % 256
  IN IF b3 # 0
     THEN <<drop_mask(b3), drop_mask(b2), drop_mask(b1), drop_mask(b0)>>
     ELSE IF b2 # 0 THEN <<drop_mask(b2), drop_mask(b1), drop_mask(b0)>>
     ELSE IF b1 # 0 THEN <<drop_mask(b1), drop_mask(b0)>>
     ELSE IF (key \div 128) % 2 # 0 THEN <<0 - 1>>
     ELSE <<key>>

RECURSIVE cdt_chain(_, _, _, _)
cdt_chain(m, oc, keys, i) ==
  IF i > Len(keys) \/ m.err # "ok" THEN m
  ELSE IF keys[i] < 0 THEN [m EXCEPT !.err = "assert"]
  ELSE cdt_chain(cursor_discreet_transition(m, oc, keys[i]), oc, keys, i + 1)

\* a match_any_of that starts each option from the cursors the previous
\* option left
RECURSIVE match_any_of_chained(_, _, _, _, _, _, _)
match_any_of_chained(m, oc, utf, options, i, initial_cursors, new_cursors) ==
  IF i > Len(options) THEN m
  ELSE LET m1 == cdt_chain(m, oc,
                           IF utf THEN utf8_keys(options[i])
                           ELSE <<options[i]>>, 1)
       IN IF m1.err # "ok" THEN m1
          ELSE match_any_of_chained(m1, oc, utf, options, i + 1,
                                    initial_cursors, new_cursors)

\* match_any_of: the loop over the options
RECURSIVE match_any_of_loop(_, _, _, _, _, _, _)
match_any_of_loop(m, oc, utf, options, i, initial_cursors, new_cursors) ==
  IF i > Len(options) THEN [m EXCEPT !.cursors = new_cursors]
  ELSE LET m1 == cdt_chain(m, oc,
                           IF utf THEN utf8_keys(options[i])
                           ELSE <<options[i]>>, 1)
       IN IF m1.err # "ok" THEN m1
          ELSE match_any_of_loop([m1 EXCEPT !.cursors = initial_cursors], oc,
                                 utf, options, i + 1, initial_cursors,
                                 new_cursors \o m1.cursors)

match_any_of(m, oc, utf, options) ==
  match_any_of_loop([m EXCEPT !.nodes = new_node(m.nodes)], oc, utf, options,
                    1, m.cursors, <<>>)

RECURSIVE match_sequence(_, _, _, _)
match_sequence(m, oc, utf, seq) ==
  IF seq = <<>> \/ m.err # "ok" THEN m
  ELSE match_sequence(match_any_of(m, oc, utf, <<Head(seq)>>), oc, utf,
                      Tail(seq))

\* an exit_point for which every existing accept record is a collision
RECURSIVE exit_point_loop_strict(_, _, _, _, _, _)
exit_point_loop_strict(ns, oc, cs, i, back_by, errors) ==
  IF i > Len(cs) THEN [nodes |-> ns, errors |-> errors]
  ELSE LET cur == cs[i]
           node == ns[cur]
       IN IF has_value(node)
          THEN IF oc = "Skip"
               THEN exit_point_loop_strict(ns, oc, cs, i + 1, back_by, errors)
               ELSE IF oc = "Overwrite"
               THEN exit_point_loop_strict([ns EXCEPT ![cur].val = back_by],
                                           oc, cs, i + 1, back_by, errors)
               ELSE exit_point_loop_strict(ns, oc, cs, i + 1, back_by,
                                           errors + 1)
          ELSE exit_point_loop_strict([ns EXCEPT ![cur].val = back_by], oc, cs,
                                      i + 1, back_by, errors)

\* exit_point: the loop over the cursors
RECURSIVE exit_point_loop(_, _, _, _, _, _)
exit_point_loop(ns, oc, cs, i, back_by, errors) ==
  IF i > Len(cs) THEN [nodes |-> ns, errors |-> errors]
  ELSE LET cur == cs[i]
           node == ns[cur]
       IN IF has_value(node)
          THEN IF node.val # back_by
               THEN IF oc = "Skip"
                    THEN exit_point_loop(ns, oc, cs, i + 1, back_by, errors)
                    ELSE IF oc = "Overwrite"
                    THEN exit_point_loop([ns EXCEPT ![cur].val = back_by], oc,
                                         cs, i + 1, back_by, errors)
                    ELSE exit_point_loop(ns, oc, cs, i + 1, back_by, errors + 1)
               ELSE exit_point_loop(ns, oc, cs, i + 1, back_by, errors)
          ELSE exit_point_loop([ns EXCEPT ![cur].val = back_by], oc, cs, i + 1,
                               back_by, errors)

exit_point(m, oc, back_by) ==
  IF ~cursors_ok(m.nodes, m.cursors) THEN [m EXCEPT !.err = "assert"]
  ELSE LET r == exit_point_loop(m.nodes, oc, m.cursors, 1, back_by, 0)
       IN IF r.errors # 0 THEN [m EXCEPT !.err = "panic"]
          ELSE [m EXCEPT !.nodes = r.nodes]

---------------------------------------------------------------------------
(* Splicing a sub-pattern: match, match_many_optionally, match_many *)

\* consume_regex_except_root: the store with the non-root nodes of the
\* regex appended (transitions rebased, accept records not copied), and the
\* terminals. mappings[idx] is idx + base_index for an imported node.
RECURSIVE consume_loop(_, _, _, _, _)
consume_loop(ns, rnodes, idx, base_index, terminals) ==
  IF idx > Len(rnodes) THEN [nodes |-> ns, terminals |-> terminals]
  ELSE LET node == rnodes[idx]
           n == [tr |-> [k \in Keys |->
                           IF node.tr[k] # 0 THEN node.tr[k] + base_index
                           ELSE 0],
                 val |-> NoVal]
       IN consume_loop(Append(ns, n), rnodes, idx + 1, base_index,
                       IF has_value(node)
                       THEN Append(terminals, idx + base_index)
                       ELSE terminals)

consume_regex_except_root(ns, rnodes) ==
  consume_loop(ns, rnodes, 2, Len(ns) - 1, <<>>)

mappings(rnodes, base_index, old) ==
  IF old >= 2 /\ old <= Len(rnodes) THEN old + base_index ELSE 0

\* merge_regex_into_machine: the loops over the cursors (ci) and over the
\* transitions of the pseudo-root (ki)
RECURSIVE merge_loop(_, _, _, _, _, _, _)
merge_loop(ns, oc, cs, root_tr, ci, ki, terminals) ==
  IF ci > Len(cs) THEN [nodes |-> ns, terminals |-> terminals, err |-> "ok"]
  ELSE IF ki > Len(KeySeq)
  THEN merge_loop(ns, oc, cs, root_tr, ci + 1, 1, terminals)
  ELSE LET key == KeySeq[ki]
           dest == root_tr[key]
       IN IF dest = 0
          THEN merge_loop(ns, oc, cs, root_tr, ci, ki + 1, terminals)
          ELSE LET r == make_nonambiguous_link(ns, oc, cs[ci], key, dest,
                                               terminals, MaxNodes)
               IN IF r.err # "ok"
                  THEN [nodes |-> ns, terminals |-> terminals, err |-> r.err]
                  ELSE merge_loop(r.nodes, oc, cs, root_tr, ci, ki + 1,
                                  terminals \o r.repl)

merge_regex_into_machine(m, oc, regex) ==
  LET base_idx == Len(m.nodes) - 1
      result == consume_regex_except_root(m.nodes, regex.nodes)
      new_root_transitions ==
        [k \in Keys |-> IF regex.nodes[1].tr[k] # 0
                        THEN regex.nodes[1].tr[k] + base_idx ELSE 0]
      r == merge_loop(result.nodes, oc, m.cursors, new_root_transitions, 1, 1,
                      result.terminals)
  IN IF r.err # "ok" THEN [m EXCEPT !.err = r.err]
     ELSE Machine(r.nodes, r.terminals, "ok")

match(m, oc, pattern) == merge_regex_into_machine(m, oc, pattern)

\* match_many_optionally: for every transition of the pattern root (ki),
\* link every node of `froms` (fi) to the imported target
RECURSIVE mmo_loop(_, _, _, _, _, _, _)
mmo_loop(ns, oc, rnodes, base_index, froms, ki, fi) ==
  IF ki > Len(KeySeq) THEN [nodes |-> ns, err |-> "ok"]
  ELSE LET key == KeySeq[ki]
           old_transition == rnodes[1].tr[key]
           new_transition == mappings(rnodes, base_index, old_transition)
       IN IF old_transition = 0 \/ fi > Len(froms)
          THEN mmo_loop(ns, oc, rnodes, base_index, froms, ki + 1, 1)
          ELSE LET r == make_nonambiguous_link(ns, oc, froms[fi], key,
                                               new_transition, <<>>, MaxNodes)
               IN IF r.err # "ok" THEN [nodes |-> ns, err |-> r.err]
                  ELSE mmo_loop(r.nodes, oc, rnodes, base_index, froms, ki,
                                fi + 1)

match_many_optionally(m, oc, pattern) ==
  LET cursors_before == m.cursors
      base_index == Len(m.nodes) - 1
      res == consume_regex_except_root(m.nodes, pattern.nodes)
      r1 == mmo_loop(res.nodes, oc, pattern.nodes, base_index, res.terminals,
                     1, 1)
      r2 == mmo_loop(r1.nodes, oc, pattern.nodes, base_index, cursors_before,
                     1, 1)
  IN IF r1.err # "ok" THEN [m EXCEPT !.err = r1.err]
     ELSE IF r2.err # "ok" THEN [m EXCEPT !.err = r2.err]
     ELSE Machine(r2.nodes, cursors_before \o res.terminals, "ok")

match_many(m, oc, pattern) ==
  LET m1 == match(m, oc, pattern)
  IN IF m1.err # "ok" THEN m1 ELSE match_many_optionally(m1, oc, pattern)

\* The calls of make_nonambiguous_link a builder call makes, in order, each
\* with the store it is made on: [ns, from, key, to, watch].
LinkCall(ns, from, key, to, watch) ==
  [ns |-> ns, from |-> from, key |-> key, to |-> to, watch |-> watch]

\* the calls of merge_regex_into_machine
RECURSIVE merge_calls(_, _, _, _, _, _, _)
merge_calls(ns, oc, cs, root_tr, ci, ki, terminals) ==
  IF ci > Len(cs) THEN <<>>
  ELSE IF ki > Len(KeySeq)
  THEN merge_calls(ns, oc, cs, root_tr, ci + 1, 1, terminals)
  ELSE LET key == KeySeq[ki]
           dest == root_tr[key]
       IN IF dest = 0
          THEN merge_calls(ns, oc, cs, root_tr, ci, ki + 1, terminals)
          ELSE LET r == make_nonambiguous_link(ns, oc, cs[ci], key, dest,
                                               terminals, MaxNodes)
               IN <<LinkCall(ns, cs[ci], key, dest, terminals)>>
                  \o (IF r.err # "ok" THEN <<>>
                      ELSE merge_calls(r.nodes, oc, cs, root_tr, ci, ki + 1,
                                       terminals \o r.repl))

match_calls(m, oc, regex) ==
  LET base_idx == Len(m.nodes) - 1
      result == consume_regex_except_root(m.nodes, regex.nodes)
      new_root_transitions ==
        [k \in Keys |-> IF regex.nodes[1].tr[k] # 0
                        THEN regex.nodes[1].tr[k] + base_idx ELSE 0]
  IN merge_calls(result.nodes, oc, m.cursors, new_root_transitions, 1, 1,
                 result.terminals)

\* the calls of one loop of match_many_optionally
RECURSIVE mmo_loop_calls(_, _, _, _, _, _, _)
mmo_loop_calls(ns, oc, rnodes, base_index, froms, ki, fi) ==
  IF ki > Len(KeySeq) THEN <<>>
  ELSE LET key == KeySeq[ki]
           old_transition == rnodes[1].tr[key]
           new_transition == mappings(rnodes, base_index, old_transition)
       IN IF old_transition = 0 \/ fi > Len(froms)
          THEN mmo_loop_calls(ns, oc, rnodes, base_index, froms, ki + 1, 1)
          ELSE LET r == make_nonambiguous_link(ns, oc, froms[fi], key,
                                               new_transition, <<>>, MaxNodes)
               IN <<LinkCall(ns, froms[fi], key, new_transition, <<>>)>>
                  \o (IF r.err # "ok" THEN <<>>
                      ELSE mmo_loop_calls(r.nodes, oc, rnodes, base_index,
                                          froms, ki, fi + 1))

match_many_optionally_calls(m, oc, pattern) ==
  LET base_index == Len(m.nodes) - 1
      res == consume_regex_except_root(m.nodes, pattern.nodes)
      r1 == mmo_loop(res.nodes, oc, pattern.nodes, base_index, res.terminals,
                     1, 1)
  IN mmo_loop_calls(res.nodes, oc, pattern.nodes, base_index, res.terminals,
                    1, 1)
     \o (IF r1.err # "ok" THEN <<>>
         ELSE mmo_loop_calls(r1.nodes, oc, pattern.nodes, base_index,
                             m.cursors, 1, 1))

\* the calls of the loop over cursors_with_default
RECURSIVE cdt_default_calls(_, _, _, _, _)
cdt_default_calls(ns, oc, transition, cs, i) ==
  IF i > Len(cs) THEN <<>>
  ELSE LET cursor == cs[i]
           old_transition == ns[cursor].tr[transition]
           default_idx == ns[cursor].tr[Def]
       IN IF old_transition # 0
          THEN LET r == make_nonambiguous_link(ns, oc, cursor, transition,
                                               default_idx, <<default_idx>>,
                                               MaxNodes)
               IN <<LinkCall(ns, cursor, transition, default_idx,
                             <<default_idx>>)>>
                  \o (IF r.err # "ok" \/ Len(r.repl) = 0 THEN <<>>
                      ELSE cdt_default_calls(r.nodes, oc, transition, cs,
                                             i + 1))
          ELSE cdt_default_calls(SetTr(new_node(ns), cursor, transition,
                                       Len(ns) + 1),
                                 oc, transition, cs, i + 1)

cursor_discreet_transition_calls(m, oc, transition) ==
  IF ~cursors_ok(m.nodes, m.cursors) THEN <<>>
  ELSE
    LET ns == m.nodes
        with_default == SelectSeq(m.cursors, LAMBDA c : ns[c].tr[Def] # 0)
        without_child == SelectSeq(m.cursors, LAMBDA c :
                           ns[c].tr[Def] = 0 /\ ns[c].tr[transition] = 0)
        with_child == SelectSeq(m.cursors, LAMBDA c :
                           ns[c].tr[Def] = 0 /\ ns[c].tr[transition] # 0)
        ns1 == IF without_child = <<>> THEN ns
               ELSE LinkAll(new_node(ns), without_child, 1, transition,
                            Len(ns) + 1)
        r2 == cdt_with_child(ns1, transition, with_child, 1, <<>>)
    IN cdt_default_calls(r2.nodes, oc, transition, with_default, 1)

---------------------------------------------------------------------------
(* Optimizer. A value that a loop carries from one iteration to the next  *)
(* is bound with CHOOSE r \in {e(v) : v \in {value}} : TRUE, which is      *)
(* LET v == value IN e(v) with the value computed once.                   *)

\* each_transition with "if (pred(v)) v = w": rewrite the live transitions
ZeroRefsTo(node, nulls) ==
  [node EXCEPT !.tr = [k \in Keys |->
                         IF node.tr[k] \in nulls THEN 0 ELSE node.tr[k]]]

\* nullify_nullrefs: one pass of the while loop over the nodes, from node i
RECURSIVE nullify_nullrefs_pass(_, _, _, _, _)
nullify_nullrefs_pass(ns, cs, nulls, i, has_nulled) ==
  IF i > Len(ns) THEN [nodes |-> ns, nulls |-> nulls, has_nulled |-> has_nulled]
  ELSE IF i \in nulls
  THEN nullify_nullrefs_pass(ns, cs, nulls, i + 1, has_nulled)
  ELSE CHOOSE r \in
         {IF is_deletable_node(ns1, cs, i)
          THEN nullify_nullrefs_pass(ns1, cs, nulls \cup {i}, i + 1, TRUE)
          ELSE nullify_nullrefs_pass(ns1, cs, nulls, i + 1, has_nulled) :
            ns1 \in {[ns EXCEPT ![i] = ZeroRefsTo(ns[i], nulls)]}} : TRUE

RECURSIVE nullify_nullrefs_loop(_, _, _, _)
nullify_nullrefs_loop(ns, cs, nulls, fuel) ==
  LET r == nullify_nullrefs_pass(ns, cs, nulls, 1, FALSE)
  IN IF ~r.has_nulled \/ fuel = 0 THEN r.nodes
     ELSE nullify_nullrefs_loop(r.nodes, cs, r.nulls, fuel - 1)

nullify_nullrefs(ns, cs) ==
  nullify_nullrefs_loop(ns, cs,
                        {i \in 1..Len(ns) : is_deletable_node(ns, cs, i)},
                        Len(ns))

\* remove_duplicates_once: is `other` collected as a matcher of `node`
is_matcher(ns, cflags, node_idx, other_idx) ==
  LET node == ns[node_idx]
      other == ns[other_idx]
  IN /\ ~(is_null(other) /\ other_idx \notin cflags)
     /\ (other_idx \in cflags) = (node_idx \in cflags)
     /\ node.val = other.val
     /\ \A k \in Keys :
          node.tr[k] # 0 =>
            \/ (node.tr[k] = node_idx /\ other.tr[k] = other_idx)
            \/ node.tr[k] = other.tr[k]

\* redirect every reference to old_idx to new_idx, then nullify old_idx
fold_into(ns, old_idx, new_idx) ==
  [i \in 1..Len(ns) |->
     IF i = old_idx THEN NullNode
     ELSE [ns[i] EXCEPT !.tr = [k \in Keys |->
                                  IF ns[i].tr[k] = old_idx THEN new_idx
                                  ELSE ns[i].tr[k]]]]

RECURSIVE fold_matchers(_, _, _, _, _)
fold_matchers(ns, cflags, matchers, i, new_idx) ==
  IF i > Len(matchers) THEN [nodes |-> ns, cflags |-> cflags]
  ELSE CHOOSE r \in
         {fold_matchers(ns1, cflags \ {matchers[i]}, matchers, i + 1, new_idx) :
            ns1 \in {fold_into(ns, matchers[i], new_idx)}} : TRUE

RECURSIVE collect_matchers(_, _, _, _)
collect_matchers(ns, cflags, node_idx, other_idx) ==
  IF other_idx >= node_idx THEN <<>>
  ELSE (IF is_matcher(ns, cflags, node_idx, other_idx) THEN <<other_idx>>
        ELSE <<>>) \o collect_matchers(ns, cflags, node_idx, other_idx + 1)

\* the reverse loop over the nodes, the root excluded
RECURSIVE rdo_loop(_, _, _, _)
rdo_loop(ns, cflags, node_idx, has_removed_dup) ==
  IF node_idx < 2
  THEN [nodes |-> ns, cflags |-> cflags, has_removed_dup |-> has_removed_dup]
  ELSE IF is_null(ns[node_idx]) /\ node_idx \notin cflags
  THEN rdo_loop(ns, cflags, node_idx - 1, has_removed_dup)
  ELSE CHOOSE res \in
         {IF matchers = <<>>
          THEN rdo_loop(ns, cflags, node_idx - 1, has_removed_dup)
          ELSE CHOOSE res2 \in
                 {rdo_loop(r.nodes, r.cflags, node_idx - 1, TRUE) :
                    r \in {fold_matchers(ns, cflags, matchers, 1, node_idx)}} :
                 TRUE :
            matchers \in {collect_matchers(ns, cflags, node_idx, 2)}} : TRUE

RECURSIVE SortedSeq(_, _, _)
SortedSeq(S, i, n) ==
  IF i > n THEN <<>>
  ELSE (IF i \in S THEN <<i>> ELSE <<>>) \o SortedSeq(S, i + 1, n)

\* The cursors outside the store, whose flag is written outside the vector.
stray_cursors(ns, cs) == {c \in Range(cs) : c < 1 \/ c > Len(ns)}

\* a pass that reports the duplicates it finds and leaves them in place
remove_duplicates_once_unfolded(ns, cs) ==
  LET cflags == Range(cs) \cap (1..Len(ns))
      r == rdo_loop(ns, cflags, Len(ns), FALSE)
  IN [nodes |-> ns,
      cursors |-> SortedSeq(cflags, 1, Len(ns)),
      has_removed_dup |-> r.has_removed_dup]

remove_duplicates_once(ns, cs) ==
  LET cflags == Range(cs) \cap (1..Len(ns))
      r == rdo_loop(ns, cflags, Len(ns), FALSE)
  IN [nodes |-> r.nodes,
      cursors |-> SortedSeq(r.cflags, 1, Len(ns)),
      has_removed_dup |-> r.has_removed_dup]

RECURSIVE remove_duplicates_loop(_, _, _)
remove_duplicates_loop(ns, cs, fuel) ==
  LET r == remove_duplicates_once(ns, cs)
  IN IF ~r.has_removed_dup \/ fuel = 0
     THEN [nodes |-> r.nodes, cursors |-> r.cursors]
     ELSE remove_duplicates_loop(r.nodes, r.cursors, fuel - 1)

remove_duplicates(ns, cs) == remove_duplicates_loop(ns, cs, Len(ns))

\* nullify_orphans: the reachability fixpoint
RECURSIVE reachables(_, _)
reachables(ns, R) ==
  CHOOSE r \in
    {IF R1 = R THEN R ELSE reachables(ns, R1) :
       R1 \in {R \cup ({ns[i].tr[k] : i \in R, k \in Keys} \ {0})}} : TRUE

\* nullify_orphans: one pass of the while loop over the nodes, from node i
RECURSIVE nullify_orphans_pass(_, _, _, _)
nullify_orphans_pass(ns, R, i, has_expanded) ==
  IF i > Len(ns) THEN [reachables |-> R, has_expanded |-> has_expanded]
  ELSE IF i \in R
  THEN CHOOSE r \in
         {nullify_orphans_pass(ns, R1, i + 1, has_expanded \/ R1 # R) :
            R1 \in {R \cup ({ns[i].tr[k] : k \in Keys} \ {0})}} : TRUE
  ELSE nullify_orphans_pass(ns, R, i + 1, has_expanded)

\* `oob` is the value read at reachables[size], one past the vector
nullify_orphans(ns, cs, oob) ==
  CHOOSE r \in
    {LET kept(c) == IF c = 0 THEN TRUE
                    ELSE IF c >= Len(ns) THEN oob
                    ELSE (c + 1) \in R
     IN [nodes |-> [i \in 1..Len(ns) |-> IF i \in R THEN ns[i] ELSE NullNode],
         cursors |-> SelectSeq(cs, LAMBDA c : kept(c) /\ c # 0)] :
       R \in {reachables(ns, {1})}} : TRUE

\* remove_blanks: mappings (old index -> new index, 0 = dropped), computed
\* by the loop over the nodes with the running counter idx
RECURSIVE blanks_loop(_, _, _, _, _, _)
blanks_loop(ns, cs, j, idx, new_nodes, map) ==
  IF j > Len(ns) THEN [new_nodes |-> new_nodes, map |-> map]
  ELSE IF is_null(ns[j]) /\ j # 1 /\ ~has_cursor(cs, idx)
  THEN blanks_loop(ns, cs, j + 1, idx, new_nodes, Append(map, 0))
  ELSE blanks_loop(ns, cs, j + 1, idx + 1, Append(new_nodes, ns[j]),
                   Append(map, idx))

RECURSIVE MapSeq(_, _, _)
MapSeq(map, cs, i) ==
  IF i > Len(cs) THEN <<>>
  ELSE <<map[cs[i]]>> \o MapSeq(map, cs, i + 1)

\* the surviving nodes with their references left as they were
RemapNodes_stale(map, ns, i) == ns

RECURSIVE RemapNodes(_, _, _)
RemapNodes(map, ns, i) ==
  IF i > Len(ns) THEN <<>>
  ELSE <<[ns[i] EXCEPT !.tr = [k \in Keys |->
                                 IF ns[i].tr[k] # 0 THEN map[ns[i].tr[k]]
                                 ELSE 0]]>>
       \o RemapNodes(map, ns, i + 1)

remove_blanks(ns, cs) ==
  LET r == blanks_loop(ns, cs, 1, 1, <<>>, <<>>)
  IN [nodes |-> RemapNodes(r.map, r.new_nodes, 1),
      cursors |-> MapSeq(r.map, cs, 1)]

\* optimize. oob: the bit read one past `reachables`; crash: whether the
\* write of a cursor flag outside the vector ends the program.
optimize(m, oob, crash) ==
  LET n1 == nullify_nullrefs(m.nodes, m.cursors)
      d1 == remove_duplicates(n1, m.cursors)
      n2 == nullify_nullrefs(d1.nodes, d1.cursors)
      d2 == remove_duplicates(n2, d1.cursors)
      o == nullify_orphans(d2.nodes, d2.cursors, oob)
      b == remove_blanks(o.nodes, o.cursors)
  IN IF stray_cursors(m.nodes, m.cursors) # {} /\ crash
     THEN [m EXCEPT !.err = "ub"]
     ELSE Machine(b.nodes, b.cursors, "ok")

---------------------------------------------------------------------------
(* The calls a client makes *)

ConflictActions == {"Skip", "Overwrite", "Error"}

\* symbols and code points handed to match_any_of / match_sequence
ByteChoices == {97, 98}
Utf8Choices == {97, 233, 50089}   \* 'a', U+00E9, and the packed 0xC3A9
Choices == IF is_utf8 THEN Utf8Choices ELSE ByteChoices

OptionLists == {<<x>> : x \in Choices} \cup {<<97, 98>>}
Sequences == {<<97, 98>>, <<98, 97>>}

\* The MutableRegex values handed to match / match_many /
\* match_many_optionally: the machines of "a", "b" and a*b.
\* A node of such a machine has transitions on 'a' and 'b' only.
RegexNode(on_a, on_b, val) ==
  [tr |-> [k \in Keys |-> IF k = 97 THEN on_a ELSE IF k = 98 THEN on_b ELSE 0],
   val |-> val]

RegexA ==
  Machine(<<RegexNode(3, 0, NoVal), NullNode, RegexNode(0, 0, 0)>>, <<3>>,
          "ok")

RegexB ==
  Machine(<<RegexNode(0, 3, NoVal), NullNode, RegexNode(0, 0, 0)>>, <<3>>,
          "ok")

RegexAStarB ==
  Machine(<<RegexNode(3, 5, NoVal), NullNode, RegexNode(3, 5, NoVal), NullNode,
            RegexNode(0, 0, 0)>>, <<5>>, "ok")

Patterns == <<RegexA, RegexB, RegexAStarB>>

\* the same machines as the public calls build them on a fresh machine
PatA == exit_point(match_any_of(Fresh, "Error", FALSE, <<97>>), "Error", 0)

PatB == exit_point(match_any_of(Fresh, "Error", FALSE, <<98>>), "Error", 0)

PatAStarB ==
  exit_point(match_any_of(match_many_optionally(Fresh, "Error", PatA),
                          "Error", FALSE, <<98>>), "Error", 0)

Built == <<PatA, PatB, PatAStarB>>

M == Machine(m_nodes, cursors, err)

\* no optimize() call is at work
NoOptimize == [stage |-> "idle", nulls |-> {}, reachables |-> {}]

\* no loop over find_many was started
NoLoop ==
  [input |-> <<>>, out |-> <<>>, op |-> "none",
   it |-> [next |-> NoMatch, from |-> 0, to |-> 0, ub |-> FALSE]]

\* a utf_validator as constructed (count = 0), with the bytes it will be given
Validator(bytes) ==
  [input |-> bytes, pos |-> 1, count |-> 0, error |-> "None", op |-> "new"]

\* the state after a call returned r, or after it ended the program
Returns(r, op, arg, limit) ==
  /\ err = "ok"
  /\ calls < limit
  /\ r.err # "big"
  /\ Len(r.nodes) <= MaxNodes
  /\ err' = r.err
  /\ m_nodes' = IF r.err = "ok" THEN r.nodes ELSE m_nodes
  /\ cursors' = IF r.err = "ok" THEN r.cursors ELSE cursors
  /\ lastop' = op
  /\ lastarg' = arg
  /\ calls' = calls + 1
  /\ UNCHANGED <<is_utf8, uv, gen, opt>>

NotPlain == plain_bb' = 0 - 2 /\ front' = {} /\ lang' = {}

CallRoot(limit) ==
  /\ Returns(root(M), "root", <<>>, limit)
  /\ front' = IF plain_bb = 0 - 2 THEN {} ELSE {<<>>}
  /\ UNCHANGED <<on_conflict, plain_bb, lang>>

CallConflict(ca, limit) ==
  /\ Returns(M, "conflict", <<ca>>, limit)
  /\ on_conflict' = ca
  /\ NotPlain

CallMatchDefault(limit) ==
  /\ Returns(match_default(M, on_conflict), "match_default", <<>>, limit)
  /\ NotPlain
  /\ UNCHANGED on_conflict

CallMatchEof(limit) ==
  /\ Returns(match_eof(M), "match_eof", <<>>, limit)
  /\ NotPlain
  /\ UNCHANGED on_conflict

CallMatchAnyOf(options, limit) ==
  /\ Returns(match_any_of(M, on_conflict, is_utf8, options), "match_any_of",
             options, limit)
  /\ front' = IF plain_bb = 0 - 2 THEN {}
              ELSE {w \o <<options[i]>> : w \in front, i \in DOMAIN options}
  /\ UNCHANGED <<on_conflict, plain_bb, lang>>

CallMatchSequence(seq, limit) ==
  /\ Returns(match_sequence(M, on_conflict, is_utf8, seq), "match_sequence",
             seq, limit)
  /\ front' = IF plain_bb = 0 - 2 THEN {} ELSE {w \o seq : w \in front}
  /\ UNCHANGED <<on_conflict, plain_bb, lang>>

CallMatch(p) ==
  /\ Returns(match(M, on_conflict, Patterns[p]), "match", <<p>>, MaxCalls)
  /\ NotPlain
  /\ UNCHANGED on_conflict

CallMatchMany(p, limit) ==
  /\ Returns(match_many(M, on_conflict, Patterns[p]), "match_many", <<p>>,
             limit)
  /\ NotPlain
  /\ UNCHANGED on_conflict

CallMatchManyOptionally(p) ==
  /\ Returns(match_many_optionally(M, on_conflict, Patterns[p]),
             "match_many_optionally", <<p>>, MaxCalls)
  /\ NotPlain
  /\ UNCHANGED on_conflict

CallExitPoint(back_by, limit) ==
  /\ Returns(exit_point(M, on_conflict, back_by), "exit_point", <<back_by>>,
             limit)
  /\ IF plain_bb = 0 - 1 \/ plain_bb = back_by
     THEN plain_bb' = back_by /\ lang' = lang \cup front /\ front' = front
     ELSE NotPlain
  /\ UNCHANGED on_conflict

CallOptimize(oob, crash, limit) ==
  /\ Returns(optimize(M, oob, crash), "optimize", <<>>, limit)
  /\ NotPlain
  /\ UNCHANGED on_conflict

InitCommon ==
  /\ m_nodes = Fresh.nodes
  /\ cursors = Fresh.cursors
  /\ on_conflict = "Error"
  /\ err = "ok"
  /\ lastop = "new"
  /\ lastarg = <<>>
  /\ calls = 0
  /\ lang = {}
  /\ uv = Validator(<<>>)
  /\ gen = NoLoop
  /\ opt = NoOptimize

Init ==
  /\ InitCommon
  /\ is_utf8 = FALSE
  /\ plain_bb = 0 - 1
  /\ front = {<<>>}

InitUtf8 ==
  /\ InitCommon
  /\ is_utf8 = TRUE
  /\ plain_bb = 0 - 2
  /\ front = {}

Next ==
  \/ CallRoot(MaxCalls)
  \/ \E ca \in ConflictActions : CallConflict(ca, MaxCalls)
  \/ CallMatchDefault(MaxCalls)
  \/ CallMatchEof(MaxCalls)
  \/ \E options \in OptionLists : CallMatchAnyOf(options, MaxCalls)
  \/ \E seq \in Sequences : CallMatchSequence(seq, MaxCalls)
  \/ \E p \in DOMAIN Patterns : CallMatch(p)
  \/ \E p \in DOMAIN Patterns : CallMatchMany(p, MaxCalls)
  \/ \E p \in DOMAIN Patterns : CallMatchManyOptionally(p)
  \/ \E back_by \in 0..MaxBackBy : CallExitPoint(back_by, MaxCalls)
  \/ \E oob \in BOOLEAN, crash \in BOOLEAN :
       CallOptimize(oob, crash, MaxCalls)

\* builds made only of root, match_any_of, match_sequence and exit_point
NextPlain ==
  \/ CallRoot(MaxPlainCalls)
  \/ \E options \in OptionLists : CallMatchAnyOf(options, MaxPlainCalls)
  \/ \E seq \in Sequences : CallMatchSequence(seq, MaxPlainCalls)
  \/ \E back_by \in 0..MaxBackBy : CallExitPoint(back_by, MaxPlainCalls)

\* the same builds, followed by optimize() calls
NextBuild ==
  \/ NextPlain
  \/ \E oob \in BOOLEAN, crash \in BOOLEAN :
       CallOptimize(oob, crash, MaxPlainCalls)

\* builds with defaults, repetitions and accept records of every back_by,
\* the machines the find claims are checked on
NextFind ==
  \/ CallRoot(MaxFindCalls)
  \/ CallMatchDefault(MaxFindCalls)
  \/ \E options \in OptionLists : CallMatchAnyOf(options, MaxFindCalls)
  \/ \E p \in DOMAIN Patterns : CallMatchMany(p, MaxFindCalls)
  \/ \E back_by \in 0..MaxBackBy : CallExitPoint(back_by, MaxFindCalls)

\* builds under the policy Error that mix defaults, accept records,
\* transitions on one symbol and its repetition
NextConflict ==
  \/ CallRoot(MaxConflictCalls)
  \/ CallMatchDefault(MaxConflictCalls)
  \/ CallMatchAnyOf(<<97>>, MaxConflictCalls)
  \/ CallMatchMany(1, MaxConflictCalls)
  \/ \E back_by \in 0..MaxBackBy : CallExitPoint(back_by, MaxConflictCalls)

\* builds with defaults, end-of-input edges and accept records, the machines
\* the matches claims are checked on
NextEof ==
  \/ CallRoot(MaxEofCalls)
  \/ CallMatchDefault(MaxEofCalls)
  \/ CallMatchEof(MaxEofCalls)
  \/ \E options \in OptionLists : CallMatchAnyOf(options, MaxEofCalls)
  \/ \E back_by \in 0..MaxBackBy : CallExitPoint(back_by, MaxEofCalls)

\* builds that put default edges on cursors that have one already, under
\* every policy
NextDefault ==
  \/ CallRoot(MaxDefaultCalls)
  \/ \E ca \in ConflictActions : CallConflict(ca, MaxDefaultCalls)
  \/ CallMatchDefault(MaxDefaultCalls)
  \/ CallMatchAnyOf(<<97, 98>>, MaxDefaultCalls)

\* utf_validator::next on the next byte of the input
ValidatorNext ==
  /\ uv.op # "final"
  /\ uv.pos <= Len(uv.input)
  /\ LET v == uv_next(uv.count, uv.input[uv.pos])
     IN uv' = [uv EXCEPT !.pos = @ + 1, !.count = v.count, !.error = v.error,
                         !.op = "next"]
  /\ UNCHANGED <<m_nodes, cursors, on_conflict, is_utf8, err, lastop, lastarg,
                 calls, plain_bb, front, lang, gen, opt>>

\* utf_validator::final at the end of the input
ValidatorFinal ==
  /\ uv.op # "final"
  /\ uv.pos > Len(uv.input)
  /\ uv' = [uv EXCEPT !.error = uv_final(uv.count), !.op = "final"]
  /\ UNCHANGED <<m_nodes, cursors, on_conflict, is_utf8, err, lastop, lastarg,
                 calls, plain_bb, front, lang, gen, opt>>

\* the bytes given to a validator: ASCII, a continuation byte, the headers of
\* 2, 3 and 4 byte sequences and 0xFF
ValidatorBytes == {97, 131, 195, 236, 240, 255}

InitValidator ==
  /\ m_nodes = Fresh.nodes
  /\ cursors = Fresh.cursors
  /\ on_conflict = "Error"
  /\ err = "ok"
  /\ lastop = "new"
  /\ lastarg = <<>>
  /\ calls = 0
  /\ lang = {}
  /\ is_utf8 = TRUE
  /\ plain_bb = 0 - 2
  /\ front = {}
  /\ \E x \in UNION {[1..k -> ValidatorBytes] : k \in 0..MaxLen} :
       uv = Validator(x)
  /\ gen = NoLoop
  /\ opt = NoOptimize

NextValidator == ValidatorNext \/ ValidatorFinal

\* find_many(input).begin(): the iterator's constructor runs load_next
FindManyBegin(input) ==
  /\ err = "ok"
  /\ gen.op = "none"
  /\ gen' = [input |-> input, out |-> <<>>, op |-> "begin",
             it |-> load_next(m_nodes, is_utf8, input, 0, Len(input))]
  /\ UNCHANGED <<m_nodes, cursors, on_conflict, is_utf8, err, lastop, lastarg,
                 calls, plain_bb, front, lang, uv, opt>>

\* it != end() holds: the body takes *it, then operator++ runs load_next
FindManyIncrement ==
  /\ gen.op \in {"begin", "++"}
  /\ ~gen.it.ub
  /\ gen.it.to - gen.it.from # 0
  /\ gen' = [gen EXCEPT !.out = Append(@, gen.it.next), !.op = "++",
                        !.it = load_next(m_nodes, is_utf8, gen.input,
                                         gen.it.from, gen.it.to)]
  /\ UNCHANGED <<m_nodes, cursors, on_conflict, is_utf8, err, lastop, lastarg,
                 calls, plain_bb, front, lang, uv, opt>>

\* it != end() fails: the loop is left
FindManyEnd ==
  /\ gen.op \in {"begin", "++"}
  /\ ~gen.it.ub
  /\ gen.it.to - gen.it.from = 0
  /\ gen' = [gen EXCEPT !.op = "end"]
  /\ UNCHANGED <<m_nodes, cursors, on_conflict, is_utf8, err, lastop, lastarg,
                 calls, plain_bb, front, lang, uv, opt>>

\* the range of next ends before it begins (back_by is larger than the match
\* is long): building the span and the new data from it is undefined. Either
\* the build traps, or the loop goes on with the data that starts at the
\* range's end; when that lies before the input, what is read there may leave
\* the scan anywhere.
FindManyUndefined ==
  /\ gen.op \in {"begin", "++"}
  /\ gen.it.ub
  /\ \/ gen' = [gen EXCEPT !.op = "abort"]
     \/ \E f \in (IF gen.it.next.e >= 0 THEN {gen.it.next.e}
                  ELSE 0..Len(gen.input)) :
          gen' = [gen EXCEPT !.op = "++",
                             !.it = load_next(m_nodes, is_utf8, gen.input, f,
                                              Len(gen.input))]
  /\ UNCHANGED <<m_nodes, cursors, on_conflict, is_utf8, err, lastop, lastarg,
                 calls, plain_bb, front, lang, uv, opt>>

\* builds of machines over bytes with accept records of several back_by, and
\* then one loop over find_many
NextLoop ==
  \/ gen.op = "none" /\ CallRoot(MaxLoopCalls)
  \/ gen.op = "none" /\ CallMatchAnyOf(<<97>>, MaxLoopCalls)
  \/ \E b \in 0..MaxLoopBackBy :
       gen.op = "none" /\ CallExitPoint(b, MaxLoopCalls)
  \/ \E x \in UNION {[1..k -> {97, 98}] : k \in 0..MaxLen} : FindManyBegin(x)
  \/ FindManyIncrement
  \/ FindManyEnd
  \/ FindManyUndefined

\* the locals of nullify_nullrefs before its while loop
EnterNullrefs(ns, cs, stage) ==
  [stage |-> stage, reachables |-> {},
   nulls |-> {i \in 1..Len(ns) : is_deletable_node(ns, cs, i)}]

\* optimize() is called and reaches the loop of the first nullify_nullrefs
OptimizeEnter ==
  /\ err = "ok"
  /\ calls < MaxOptimizeCalls
  /\ opt.stage = "idle"
  /\ opt' = EnterNullrefs(m_nodes, cursors, "nullify_nullrefs 1")
  /\ calls' = calls + 1
  /\ UNCHANGED <<m_nodes, cursors, on_conflict, is_utf8, err, lastop, lastarg,
                 plain_bb, front, lang, uv, gen>>

\* one pass of the while loop of nullify_nullrefs; the pass that nulled
\* nothing leaves the loop, and remove_duplicates is next
NullrefsPass ==
  /\ opt.stage \in {"nullify_nullrefs 1", "nullify_nullrefs 2"}
  /\ \E r \in {nullify_nullrefs_pass(m_nodes, cursors, opt.nulls, 1, FALSE)} :
        /\ m_nodes' = r.nodes
        /\ opt' = IF r.has_nulled
                  THEN [opt EXCEPT !.nulls = r.nulls]
                  ELSE [stage |-> IF opt.stage = "nullify_nullrefs 1"
                                  THEN "remove_duplicates 1"
                                  ELSE "remove_duplicates 2",
                        nulls |-> {}, reachables |-> {}]
  /\ UNCHANGED <<cursors, on_conflict, is_utf8, err, lastop, lastarg, calls,
                 plain_bb, front, lang, uv, gen>>

\* one remove_duplicates_once of the loop of remove_duplicates; the one that
\* removed nothing leaves the loop. The flag of a cursor outside the store is
\* written outside the vector: the program ends there, or goes on.
DuplicatesPass ==
  /\ opt.stage \in {"remove_duplicates 1", "remove_duplicates 2"}
  /\ \/ /\ stray_cursors(m_nodes, cursors) # {}
        /\ err' = "ub"
        /\ opt' = NoOptimize
        /\ UNCHANGED <<m_nodes, cursors>>
     \/ \E r \in {remove_duplicates_once(m_nodes, cursors)} :
           /\ m_nodes' = r.nodes
           /\ cursors' = r.cursors
           /\ err' = err
           /\ opt' = IF r.has_removed_dup
                     THEN opt
                     ELSE IF opt.stage = "remove_duplicates 1"
                     THEN EnterNullrefs(r.nodes, r.cursors,
                                        "nullify_nullrefs 2")
                     ELSE [stage |-> "nullify_orphans", nulls |-> {},
                           reachables |-> {1}]
  /\ UNCHANGED <<on_conflict, is_utf8, lastop, lastarg, calls, plain_bb,
                 front, lang, uv, gen>>

\* one pass of the while loop of nullify_orphans; after the pass that marked
\* nothing the rest of nullify_orphans and remove_blanks run, and optimize()
\* returns
OrphansPass ==
  /\ opt.stage = "nullify_orphans"
  /\ \E r \in {nullify_orphans_pass(m_nodes, opt.reachables, 1, FALSE)} :
        IF r.has_expanded
        THEN /\ opt' = [opt EXCEPT !.reachables = r.reachables]
             /\ UNCHANGED <<m_nodes, cursors, lastop, lastarg, plain_bb,
                            front, lang>>
        ELSE /\ \E oob \in BOOLEAN :
                  \E o \in {nullify_orphans(m_nodes, cursors, oob)} :
                    \E b \in {remove_blanks(o.nodes, o.cursors)} :
                      m_nodes' = b.nodes /\ cursors' = b.cursors
             /\ opt' = NoOptimize
             /\ lastop' = "optimize"
             /\ lastarg' = <<>>
             /\ NotPlain
  /\ UNCHANGED <<on_conflict, is_utf8, err, calls, uv, gen>>

\* builds with alternatives, self-loops and longer cycles, and optimize()
\* calls taken one pass of a loop at a time
NextOptimize ==
  \/ opt.stage = "idle" /\ CallRoot(MaxOptimizeCalls)
  \/ \E options \in {<<97>>, <<97, 98>>} :
       opt.stage = "idle" /\ CallMatchAnyOf(options, MaxOptimizeCalls)
  \/ \E p \in {1, 3} : opt.stage = "idle" /\ CallMatchMany(p, MaxOptimizeCalls)
  \/ opt.stage = "idle" /\ CallExitPoint(0, MaxOptimizeCalls)
  \/ OptimizeEnter
  \/ NullrefsPass
  \/ DuplicatesPass
  \/ OrphansPass

\* builds with default edges and accept records that go on after optimize()
NextContinued ==
  \/ CallRoot(MaxContinuedCalls)
  \/ CallMatchDefault(MaxContinuedCalls)
  \/ CallMatchAnyOf(<<97>>, MaxContinuedCalls)
  \/ CallExitPoint(0, MaxContinuedCalls)
  \/ \E oob \in BOOLEAN, crash \in BOOLEAN :
       CallOptimize(oob, crash, MaxContinuedCalls)

\* builds on a machine over bytes
Spec == Init /\ [][Next]_vars

\* builds on a UTF-8 machine
SpecUtf8 == InitUtf8 /\ [][Next]_vars

SpecPlain == Init /\ [][NextPlain]_vars

SpecBuild == Init /\ [][NextBuild]_vars

SpecFind == Init /\ [][NextFind]_vars

SpecConflict == Init /\ [][NextConflict]_vars

SpecEof == InitUtf8 /\ [][NextEof]_vars

SpecDefault == Init /\ [][NextDefault]_vars

SpecLoop == Init /\ [][NextLoop]_vars

\* a started loop keeps running: the for statement takes its next step
SpecLoopFair ==
  SpecLoop /\ WF_vars(FindManyIncrement) /\ WF_vars(FindManyEnd)

SpecContinued == Init /\ [][NextContinued]_vars

SpecOptimize == Init /\ [][NextOptimize]_vars

\* a running optimize() goes on: each loop makes its next pass
SpecOptimizeFair ==
  /\ SpecOptimize
  /\ WF_vars(NullrefsPass) /\ WF_vars(DuplicatesPass) /\ WF_vars(OrphansPass)

\* a validator reading a byte sequence to its end
SpecValidator == InitValidator /\ [][NextValidator]_vars

---------------------------------------------------------------------------
(* Inputs of the queries, and reference definitions used by the claims *)

InSyms == IF is_utf8 THEN {97, 131, 169, 195} ELSE {97, 98, 99}

Words(S, n) == UNION {[1..k -> S] : k \in 0..n}

Inputs == Words(InSyms, MaxLen)

\* the node reached from the root over w, 0 after a dead end
RECURSIVE walk_from(_, _, _, _)
walk_from(ns, n, w, i) ==
  IF n = 0 \/ i > Len(w) THEN n
  ELSE walk_from(ns, rt_get_transition(ns[n], w[i]), w, i + 1)

walk(ns, w) == walk_from(ns, 1, w, 1)

accepts(ns, w) == walk(ns, w) # 0 /\ has_value(ns[walk(ns, w)])

\* what a caller sees of a find result
Seen(r) == [kind |-> r.kind, b |-> r.b, e |-> r.e, back_by |-> r.back_by]

---------------------------------------------------------------------------
(* Claims *)

\* C1: optimize() leaves the results of matches(x) and find(x) unchanged for
\* every input x: same success or failure, same range, same accept record.
C1_OptimizePreservesQueries ==
  [][(lastop' = "optimize" /\ err' = "ok") =>
       \A x \in Inputs :
         /\ matches(m_nodes', is_utf8, FALSE, x)
              = matches(m_nodes, is_utf8, FALSE, x)
         /\ Seen(find(m_nodes', is_utf8, x)) = Seen(find(m_nodes, is_utf8, x))
    ]_vars

\* the matches found by calling find again and again, each call on the
\* suffix that starts at the previous match's end, up to the first call
\* that returns an empty range
RECURSIVE repeated_find(_, _, _, _, _)
repeated_find(ns, utf, input, from, fuel) ==
  LET r == Shift(find(ns, utf, SubSeq(input, from + 1, Len(input))), from)
  IN IF range_size(r) = 0 \/ fuel = 0 \/ r.e > Len(input) \/ r.e < r.b
     THEN <<>>
     ELSE <<r>> \o repeated_find(ns, utf, input, r.e, fuel - 1)

\* C2: iterating find_many(x) from begin() to end() yields exactly the
\* matches of repeated find calls, none omitted and none added.
C2_FindManyIsRepeatedFind ==
  err = "ok" =>
    \A x \in Inputs :
      find_many(m_nodes, is_utf8, x).out
        = repeated_find(m_nodes, is_utf8, x, 0, Len(x))

\* a byte sequence the validator rejects when it reads all of it
RECURSIVE validate(_, _, _)
validate(x, i, count) ==
  IF i > Len(x) THEN uv_final(count)
  ELSE LET v == uv_next(count, x[i])
       IN IF v.error # "None" THEN v.error ELSE validate(x, i + 1, v.count)

Malformed(x) == validate(x, 1, 0) # "None"

\* C3: on a UTF-8 machine find and matches report a UTF-8 error for every
\* input that contains a malformed byte sequence anywhere.
C3_MalformedAlwaysError ==
  (is_utf8 /\ err = "ok") =>
    \A x \in Inputs :
      Malformed(x) =>
        /\ find(m_nodes, TRUE, x).kind = "error"
        /\ matches(m_nodes, TRUE, FALSE, x) = "error"

\* C4: after any public builder method returns, every cursor is an index in
\* [1, size of the node store].
C4_CursorsInStore ==
  err = "ok" => \A i \in DOMAIN cursors : cursors[i] \in 1..Len(m_nodes)


\* the strings a sub-pattern accepts, up to MaxLen symbols
PatLang(p) == {u \in Words({97, 98}, MaxLen) : accepts(Patterns[p].nodes, u)}

\* the concatenations of at most k strings of L, up to MaxLen symbols
RECURSIVE Star(_, _)
Star(L, k) ==
  IF k = 0 THEN {<<>>}
  ELSE {<<>>} \cup {w \in {u \o v : u \in L, v \in Star(L, k - 1)} :
                      Len(w) <= MaxLen}

\* the words that lead from the root to a node of the cursor set cs
Leads(ns, cs) == {w \in Inputs : walk(ns, w) \in Range(cs)}

\* C5: after match_many_optionally(p), p built by public calls, called with
\* cursor set C, the cursor
\* set starts with C, and a following exit_point() makes matches(w u1 ... uk)
\* true for every string w that leads from the root to a node of C and every
\* k >= 0 strings u1..uk accepted by p.
C5_ManyOptionallyRepeats ==
  [][(lastop' = "match_many_optionally" /\ err' = "ok" /\ Patterns = Built) =>
       LET m2 == exit_point(Machine(m_nodes', cursors', "ok"), on_conflict, 0)
       IN /\ Len(cursors') >= Len(cursors)
          /\ SubSeq(cursors', 1, Len(cursors)) = cursors
          /\ m2.err = "ok" =>
               \A w \in Leads(m_nodes, cursors) :
                 \A u \in Star(PatLang(lastarg'[1]), MaxLen) :
                   matches(m2.nodes, is_utf8, FALSE, w \o u) = "true"
    ]_vars

\* C6: after match(p), p built by public calls, called with cursor set C
\* and followed by exit_point(),
\* matches(w u) is true for every string w that leads from the root to a node
\* of C and every string u accepted by the sub-pattern p.
C6_MatchSplicesPattern ==
  [][(lastop' = "match" /\ err' = "ok" /\ Patterns = Built) =>
       LET m2 == exit_point(Machine(m_nodes', cursors', "ok"), on_conflict, 0)
       IN m2.err = "ok" =>
            \A w \in Leads(m_nodes, cursors) :
              \A u \in PatLang(lastarg'[1]) :
                matches(m2.nodes, is_utf8, FALSE, w \o u) = "true"
    ]_vars

\* the part of x between the offsets b and e
Part(x, b, e) == SubSeq(x, b + 1, e)

\* a build with accepts at "if" and "ifdef"
IfIfdef ==
  exit_point(
    match_sequence(
      root(exit_point(match_sequence(Fresh, "Error", FALSE, <<105, 102>>),
                      "Error", 0)),
      "Error", FALSE, <<105, 102, 100, 101, 102>>),
    "Error", 0)

\* C7: find is greedy: a match reported from position b ends, before back_by
\* is subtracted, at the largest e such that the walk from the root over
\* input[b..e) never dead-ends and ends in an accepting node; with accepts at
\* "if" and "ifdef", find("xxifdefyy") is [2,7).
C7_FindIsGreedy ==
  /\ err = "ok" =>
       \A x \in Inputs :
         LET r == find(m_nodes, is_utf8, x) IN
         r.kind = "match" =>
           /\ r.b < r.raw_e /\ r.raw_e <= Len(x)
           /\ accepts(m_nodes, Part(x, r.b, r.raw_e))
           /\ \A e \in (r.raw_e + 1)..Len(x) :
                ~accepts(m_nodes, Part(x, r.b, e))
  /\ LET r == find(IfIfdef.nodes, FALSE,
                   <<120, 120, 105, 102, 100, 101, 102, 121, 121>>)
     IN IfIfdef.err = "ok" /\ r.kind = "match" /\ r.b = 2 /\ r.e = 7

\* a match was reported although a shorter prefix of it is accepted too
C7_Witness ==
  /\ err = "ok"
  /\ \E x \in Inputs :
       LET r == find(m_nodes, is_utf8, x) IN
       /\ r.kind = "match"
       /\ \E e \in (r.b + 1)..(r.raw_e - 1) :
            accepts(m_nodes, Part(x, r.b, e))

\* the largest e in b..Len(x) such that input[b..e) is accepted, b - 1 if none
RECURSIVE last_accept(_, _, _, _)
last_accept(ns, x, b, e) ==
  IF e < b THEN b - 1
  ELSE IF accepts(ns, Part(x, b, e)) THEN e
  ELSE last_accept(ns, x, b, e - 1)

\* the store with every accept record's back_by set to 0
ZeroBackBy(ns) ==
  [i \in 1..Len(ns) |->
     IF has_value(ns[i]) THEN [ns[i] EXCEPT !.val = 0] ELSE ns[i]]

\* "foo" with exit_point(1)
FooBack1 ==
  exit_point(match_sequence(Fresh, "Error", FALSE, <<102, 111, 111>>),
             "Error", 1)

\* C8: find reports [match_begin, e - back_by) where e is the position right
\* after the last symbol consumed into the accepting node and back_by is that
\* node's accept record ("foo" with exit_point(1): find("foo") is [0,2)); the
\* result of matches does not depend on back_by.
C8_FindSubtractsBackBy ==
  /\ err = "ok" =>
       \A x \in Inputs :
         LET r == find(m_nodes, is_utf8, x)
             e == last_accept(m_nodes, x, r.b, Len(x))
         IN /\ r.kind = "match" =>
                 /\ e > r.b
                 /\ r.back_by = m_nodes[walk(m_nodes, Part(x, r.b, e))].val
                 /\ r.e = e - r.back_by
            /\ \A include_eof \in BOOLEAN :
                 matches(m_nodes, is_utf8, include_eof, x)
                   = matches(ZeroBackBy(m_nodes), is_utf8, include_eof, x)
  /\ LET r == find(FooBack1.nodes, FALSE, <<102, 111, 111>>)
     IN FooBack1.err = "ok" /\ r.kind = "match" /\ r.b = 0 /\ r.e = 2

\* a match was reported whose accept record has a back_by above 0
C8_Witness ==
  /\ err = "ok"
  /\ \E x \in Inputs :
       LET r == find(m_nodes, is_utf8, x) IN
       r.kind = "match" /\ r.back_by > 0 /\ r.e = r.raw_e - r.back_by

\* the UTF-8 encoding of a code point below 2^16
Utf8Encode(c) ==
  IF c < 128 THEN <<c>>
  ELSE IF c < 2048 THEN <<192 + (c \div 64), 128 + (c % 64)>>
  ELSE <<224 + (c \div 4096), 128 + ((c \div 64) % 64), 128 + (c % 64)>>

\* C9: on a fresh UTF-8 machine match_any_of({c}) succeeds for a code point c
\* and, with an accept, the machine matches exactly the UTF-8 byte sequence
\* of c; for U+00E9 the build succeeds and matches("\xC3\xA9") is true.
C9_AnyOfEncodesCodePoint ==
  [][(is_utf8 /\ calls = 0 /\ lastop' = "match_any_of" /\ Len(lastarg') = 1) =>
       /\ err' = "ok"
       /\ LET m2 == exit_point(Machine(m_nodes', cursors', "ok"), on_conflict, 0)
          IN /\ m2.err = "ok"
             /\ matches(m2.nodes, TRUE, FALSE, Utf8Encode(lastarg'[1])) = "true"
             /\ \A x \in Inputs :
                  matches(m2.nodes, TRUE, FALSE, x) = "true"
                    => x = Utf8Encode(lastarg'[1])
    ]_vars

\* match_sequence("ab"); match_any_of("cd"); exit_point()
AbCd ==
  exit_point(
    match_any_of(match_sequence(Fresh, "Error", FALSE, <<97, 98>>),
                 "Error", FALSE, <<99, 100>>),
    "Error", 0)

\* C10: on a fresh byte machine a build made only of root(), match_sequence,
\* match_any_of and exit_point() (all with the same back_by) accepts via
\* matches exactly the strings written (lang), also when a string shares a
\* prefix with strings written earlier; after match_sequence("ab");
\* match_any_of("cd"); exit_point(), matches is true for "abc" and "abd" and
\* false for "abe" and "ab".
C10_PlainBuildAcceptsWritten ==
  /\ (err = "ok" /\ plain_bb # 0 - 2) =>
       \A x \in Inputs \cup lang :
         (matches(m_nodes, FALSE, FALSE, x) = "true") <=> (x \in lang)
  /\ AbCd.err = "ok"
  /\ matches(AbCd.nodes, FALSE, FALSE, <<97, 98, 99>>) = "true"
  /\ matches(AbCd.nodes, FALSE, FALSE, <<97, 98, 100>>) = "true"
  /\ matches(AbCd.nodes, FALSE, FALSE, <<97, 98, 101>>) = "false"
  /\ matches(AbCd.nodes, FALSE, FALSE, <<97, 98>>) = "false"

\* a string t was written after a root() call (it is no longer than a string
\* s of an earlier exit_point) and shares its first symbol with s
C10_Witness ==
  /\ err = "ok" /\ plain_bb # 0 - 2 /\ lastop = "exit_point"
  /\ \E s \in lang \ front, t \in front :
       /\ t # <<>> /\ Len(s) > Len(t) /\ s[1] = t[1]
       /\ matches(m_nodes, FALSE, FALSE, s) = "true"
       /\ matches(m_nodes, FALSE, FALSE, t) = "true"

\* the cursors whose accept record differs from back_by
Colliding(ns, cs, back_by) ==
  {c \in Range(cs) : has_value(ns[c]) /\ ns[c].val # back_by}

\* C11: exit_point(b) gives every cursor without an accept record the record
\* {back_by = b}; for a cursor whose record has a different back_by, Skip
\* leaves it, Overwrite sets it to b and Error panics; a cursor whose back_by
\* equals b is no conflict and is left unchanged; nothing else is written.
C11_ExitPointConflicts ==
  [][(lastop' = "exit_point" /\ cursors_ok(m_nodes, cursors)) =>
       LET b == lastarg'[1]
           hit == Colliding(m_nodes, cursors, b)
       IN /\ err' = IF on_conflict = "Error" /\ hit # {} THEN "panic" ELSE "ok"
          /\ err' = "ok" =>
               /\ cursors' = cursors
               /\ Len(m_nodes') = Len(m_nodes)
               /\ \A i \in 1..Len(m_nodes) :
                    /\ m_nodes'[i].tr = m_nodes[i].tr
                    /\ m_nodes'[i].val =
                         IF i \notin Range(cursors) THEN m_nodes[i].val
                         ELSE IF ~has_value(m_nodes[i]) THEN b
                         ELSE IF i \in hit /\ on_conflict = "Overwrite" THEN b
                         ELSE m_nodes[i].val
    ]_vars

\* exit_point(b) returned under Skip and a cursor still has another back_by
C11_Witness ==
  /\ lastop = "exit_point" /\ err = "ok" /\ on_conflict = "Skip"
  /\ Colliding(m_nodes, cursors, lastarg[1]) # {}

\* the builder call op(arg) on machine m under the policy oc
ApplyCall(m, oc, op, arg) ==
  CASE op = "exit_point" -> exit_point(m, oc, arg[1])
    [] op = "match_default" -> match_default(m, oc)
    [] op = "match_any_of" -> match_any_of(m, oc, is_utf8, arg)
    [] op = "match_sequence" -> match_sequence(m, oc, is_utf8, arg)
    [] op = "match" -> match(m, oc, Patterns[arg[1]])
    [] op = "match_many" -> match_many(m, oc, Patterns[arg[1]])
    [] op = "match_many_optionally" ->
         match_many_optionally(m, oc, Patterns[arg[1]])
    [] OTHER -> m

ConflictOps ==
  {"exit_point", "match_default", "match_any_of", "match_sequence", "match",
   "match_many", "match_many_optionally"}

\* the call replaces an existing accept record, back_by or default edge by a
\* different one: what it builds under Overwrite differs from what it builds
\* under Skip
CollidingWrite(m, op, arg) ==
  ApplyCall(m, "Skip", op, arg) # ApplyCall(m, "Overwrite", op, arg)

\* C12: under on_conflict = Error a builder call panics if and only if it
\* attempts at least one colliding write (to replace an existing accept
\* record, back_by or default edge by a different one); under Skip and
\* Overwrite no builder call panics.
C12_PanicIffCollidingWrite ==
  [][(lastop' \in ConflictOps /\ err' \in {"ok", "panic"}) =>
       IF on_conflict = "Error"
       THEN (err' = "panic") <=> CollidingWrite(M, lastop', lastarg')
       ELSE err' = "ok"
    ]_vars

\* C13: for every machine and input x, if matches(x) (INCLUDE_EOF = false)
\* succeeds then find(x) reports a match whose range, before back_by is
\* subtracted, is the whole of x: begin 0, end Len(x).
C13_MatchesImpliesFindWhole ==
  err = "ok" =>
    \A x \in Inputs :
      matches(m_nodes, is_utf8, FALSE, x) = "true" =>
        LET r == find(m_nodes, is_utf8, x)
        IN r.kind = "match" /\ r.b = 0 /\ r.raw_e = Len(x)

\* the combinators that only add paths
AddingOps ==
  {"match_any_of", "match_sequence", "match_eof", "match", "match_many",
   "match_many_optionally", "exit_point"}

\* C14: no combinator call removes an accepted input: after a call of
\* match_any_of, match_sequence, match_eof, match, match_many,
\* match_many_optionally or exit_point that returns without panic, and after
\* match_default under Skip, every input x with matches(x) true before the
\* call still has matches(x) true.
C14_AcceptedInputsKept ==
  [][(/\ err = "ok" /\ err' = "ok"
      /\ \/ lastop' \in AddingOps
         \/ lastop' = "match_default" /\ on_conflict = "Skip") =>
       \A x \in Inputs : \A include_eof \in BOOLEAN :
         matches(m_nodes, is_utf8, include_eof, x) = "true" =>
           matches(m_nodes', is_utf8, include_eof, x) = "true"
    ]_vars

\* C15: optimize() is idempotent in external behaviour: a second optimize()
\* right after a first one completes without failure and leaves the results
\* of matches(x) and find(x) unchanged for every input x.
C15_OptimizeIdempotent ==
  [][(lastop = "optimize" /\ err = "ok" /\ lastop' = "optimize") =>
       /\ err' = "ok"
       /\ \A x \in Inputs :
            /\ \A include_eof \in BOOLEAN :
                 matches(m_nodes', is_utf8, include_eof, x)
                   = matches(m_nodes, is_utf8, include_eof, x)
            /\ Seen(find(m_nodes', is_utf8, x))
                 = Seen(find(m_nodes, is_utf8, x))
    ]_vars

\* the positions b at which a non-empty accepted substring of x starts
Starts(ns, x) ==
  {b \in 0..(Len(x) - 1) :
     \E e \in (b + 1)..Len(x) : accepts(ns, Part(x, b, e))}

\* C16: find locates the first instance of the pattern: if some contiguous
\* substring of the input is accepted by the machine, find returns a match
\* and the match starts at the earliest position at which an accepted
\* substring starts; find returns an empty range only if no substring of the
\* input is accepted.
C16_FindLocatesFirst ==
  err = "ok" =>
    \A x \in Inputs :
      LET r == find(m_nodes, is_utf8, x)
          S == Starts(m_nodes, x)
      IN /\ (S # {} /\ r.kind # "error") =>
              /\ r.kind = "match"
              /\ r.b \in S
              /\ \A b \in S : r.b <= b
         /\ r.kind = "nomatch" => S = {}

\* the walk over x ends on a node whose Eof edge leads to an accept record
eof_accepts(ns, x) ==
  /\ walk(ns, x) # 0
  /\ ns[walk(ns, x)].tr[Eof] # 0
  /\ has_value(ns[ns[walk(ns, x)].tr[Eof]])

\* C17 as stated: matches<INCLUDE_EOF = true>(x) succeeds if and only if the
\* walk from the root over x never dead-ends, the node reached has an Eof
\* transition and the target of that transition has an accept record;
\* matches<false>(x) never follows an Eof edge and succeeds if and only if
\* the node reached after x has an accept record.
C17_MatchesIsTheWalk ==
  err = "ok" =>
    \A x \in Inputs :
      /\ matches(m_nodes, is_utf8, TRUE, x) = "true" <=> eof_accepts(m_nodes, x)
      /\ matches(m_nodes, is_utf8, FALSE, x) = "true" <=> accepts(m_nodes, x)

\* C17: the same equivalences with, on a UTF-8 machine, the condition that x
\* is well-formed UTF-8: matches reports an error, not success, for a
\* malformed x whose walk ends on an accept record.
C17_MatchesIsTheWalkWellFormed ==
  err = "ok" =>
    \A x \in Inputs :
      LET well_formed == ~is_utf8 \/ ~Malformed(x) IN
      /\ matches(m_nodes, is_utf8, TRUE, x) = "true"
           <=> (well_formed /\ eof_accepts(m_nodes, x))
      /\ matches(m_nodes, is_utf8, FALSE, x) = "true"
           <=> (well_formed /\ accepts(m_nodes, x))

\* some non-empty well-formed input is accepted with the Eof step and not
\* without it, and the walk over some malformed input ends the same way
C17_Witness ==
  /\ err = "ok" /\ is_utf8
  /\ \E x \in Inputs \ {<<>>} :
       /\ matches(m_nodes, is_utf8, TRUE, x) = "true"
       /\ matches(m_nodes, is_utf8, FALSE, x) = "false"
  /\ \E x \in Inputs : Malformed(x) /\ eof_accepts(m_nodes, x)

\* C18: in every state reachable by public builder calls, optimize()
\* included, every non-zero transition of every node (concrete key, default
\* and eof) is an index in [1, size of the node store], the root is node 1
\* (root() makes it the only cursor) and the store is never empty.
C18_ReferencesInStore ==
  /\ Len(m_nodes) >= 1
  /\ \A i \in 1..Len(m_nodes) : \A k \in Keys :
       m_nodes[i].tr[k] \in 0..Len(m_nodes)
  /\ (lastop = "root" /\ err = "ok") => cursors = <<1>>

\* optimize() returned a store of two nodes, smaller than any store a build
\* call leaves, in which a node still has a transition
C18_Witness ==
  /\ lastop = "optimize" /\ err = "ok"
  /\ Len(m_nodes) = 2
  /\ \E i \in 1..Len(m_nodes) : \E k \in Keys : m_nodes[i].tr[k] # 0

\* the calls made by the builder call op(arg) on machine m
LinkCalls(m, oc, op, arg) ==
  CASE op = "match" -> match_calls(m, oc, Patterns[arg[1]])
    [] op = "match_many_optionally" ->
         match_many_optionally_calls(m, oc, Patterns[arg[1]])
    [] op = "match_many" ->
         LET m1 == match(m, oc, Patterns[arg[1]])
         IN match_calls(m, oc, Patterns[arg[1]])
            \o (IF m1.err # "ok" THEN <<>>
                ELSE match_many_optionally_calls(m1, oc, Patterns[arg[1]]))
    [] op = "match_any_of" /\ Len(arg) = 1 /\ ~is_utf8 ->
         cursor_discreet_transition_calls(
           [m EXCEPT !.nodes = new_node(m.nodes)], oc, arg[1])
    [] OTHER -> <<>>

\* the store after the call c of make_nonambiguous_link
Linked(c) ==
  make_nonambiguous_link(c.ns, on_conflict, c.from, c.key, c.to, c.watch,
                         MaxNodes)

live_from(ns, n, w) == walk_from(ns, n, w, 1) # 0

\* walking from node n over w ends on an accept record
accepts_from(ns, n, w) ==
  live_from(ns, n, w) /\ has_value(ns[walk_from(ns, n, w, 1)])

\* C20: fusion is pure: for a call make_nonambiguous_link(from, key, to,
\* watch) with from.transition(key) = cur, cur not 0 and not to, the node n
\* installed at from.transition(key) accepts, walking from n, exactly the
\* strings accepted from cur or from to before the call, and has exactly the
\* paths of cur and of to: no path is added and none is removed.
C20_FusionIsPure ==
  [][err = "ok" =>
       \A cs \in {LinkCalls(M, on_conflict, lastop', lastarg')} :
         \A i \in DOMAIN cs : \A c \in {cs[i]} : \A r \in {Linked(c)} :
           LET cur == c.ns[c.from].tr[c.key]
               n == r.nodes[c.from].tr[c.key]
           IN (cur \notin {0, c.to} /\ r.err = "ok") =>
                \A w \in Inputs :
                  /\ accepts_from(r.nodes, n, w)
                       <=> (accepts_from(c.ns, cur, w)
                              \/ accepts_from(c.ns, c.to, w))
                  /\ live_from(r.nodes, n, w)
                       <=> (live_from(c.ns, cur, w)
                              \/ live_from(c.ns, c.to, w))
    ]_vars

\* C21: after match_any_of(options) on a machine over bytes every resulting
\* cursor is a node allocated during the call (its index is above the size
\* of the store before the call), and for every original cursor c and every
\* option t, c.transition(t) is one of the resulting cursors, also when c
\* already had a transition on t or has a default edge.
C21_AnyOfCursorsAreFresh ==
  [][(/\ lastop' = "match_any_of" /\ ~is_utf8
      /\ err = "ok" /\ err' = "ok") =>
       /\ \A i \in DOMAIN cursors' : cursors'[i] > Len(m_nodes)
       /\ \A c \in Range(cursors) : \A t \in Range(lastarg') :
            m_nodes'[c].tr[t] \in Range(cursors')
    ]_vars

\* match_any_of returned, and a node with a default edge has its edge on the
\* first option among the cursors
C21_Witness ==
  /\ lastop = "match_any_of" /\ err = "ok" /\ ~is_utf8
  /\ \E c \in 1..Len(m_nodes) :
       /\ m_nodes[c].tr[Def] # 0
       /\ m_nodes[c].tr[lastarg[1]] \in Range(cursors)

\* the position of the first occurrence of c in cs, 0 if there is none
RECURSIVE index_of(_, _, _)
index_of(cs, c, i) ==
  IF i > Len(cs) THEN 0
  ELSE IF cs[i] = c THEN i ELSE index_of(cs, c, i + 1)

\* The cursors of a one-option match_any_of(key) on a machine over bytes
\* that have a concrete transition on key and no default edge, and whose
\* old target has not had its own key edge written earlier in the call.
CloningCursors(ns, cs, key) ==
  {c \in Range(cs) :
     /\ c \in 1..Len(ns)
     /\ ns[c].tr[Def] = 0 /\ ns[c].tr[key] # 0
     /\ LET old == ns[c].tr[key]
        IN \/ old \notin Range(cs)
           \/ /\ ns[old].tr[Def] = 0 /\ ns[old].tr[key] # 0
              /\ index_of(cs, old, 1) >= index_of(cs, c, 1)
           \/ ns[old].tr[Def] # 0}

\* C22: in cursor_discreet_transition(key), for a cursor that has a concrete
\* transition on key and no default edge, the new intermediary is a
\* field-by-field clone of the old target; whenever the old target
\* self-referred via key (old_target.transition(key) = old_target) the
\* clone's key edge points at the clone's own index; the cursor's key edge
\* then points at the clone.
C22_CloneKeepsSelfLoop ==
  [][(/\ lastop' = "match_any_of" /\ Len(lastarg') = 1 /\ ~is_utf8
      /\ err = "ok" /\ err' = "ok") =>
       \A key \in {lastarg'[1]} :
         \A c \in CloningCursors(m_nodes, cursors, key) :
           LET old == m_nodes[c].tr[key]
               clone == m_nodes'[c].tr[key]
           IN /\ clone > Len(m_nodes) + 1
              /\ clone \in Range(cursors')
              /\ m_nodes'[clone].val = m_nodes[old].val
              /\ \A k \in Keys \ {key} :
                   m_nodes'[clone].tr[k] = m_nodes[old].tr[k]
              /\ m_nodes'[clone].tr[key] =
                   IF m_nodes[old].tr[key] = old THEN clone
                   ELSE m_nodes[old].tr[key]
    ]_vars

\* the nodes remove_duplicates_once folds first on store ns: the last node
\* that has matchers (0 if none has any), the loop running backwards
RECURSIVE first_folder(_, _, _)
first_folder(ns, cflags, node_idx) ==
  IF node_idx < 2 THEN 0
  ELSE IF is_null(ns[node_idx]) /\ node_idx \notin cflags
  THEN first_folder(ns, cflags, node_idx - 1)
  ELSE IF collect_matchers(ns, cflags, node_idx, 2) # <<>> THEN node_idx
  ELSE first_folder(ns, cflags, node_idx - 1)

\* equal transition sets: on every key both self-refer or both point at the
\* same index
same_transitions(ns, a, b) ==
  \A k \in Keys :
    \/ ns[a].tr[k] = a /\ ns[b].tr[k] = b
    \/ ns[a].tr[k] = ns[b].tr[k]

\* C23: remove_duplicates_once folds an earlier node into a later node n only
\* if the two have the same cursor membership, equal accept value and equal
\* transition sets (on every key either both self-refer or both point at the
\* same index); every reference to a folded node is redirected to n, the
\* folded node is nullified and removed from the cursors. Stated of the
\* first fold of the first pass optimize() runs.
C23_FoldsOnlyEqualNodes ==
  [][(/\ lastop' = "optimize" /\ err = "ok"
      /\ stray_cursors(m_nodes, cursors) = {}) =>
       \A ns \in {nullify_nullrefs(m_nodes, cursors)} :
         \A cflags \in {Range(cursors)} :
           \A n \in {first_folder(ns, cflags, Len(ns))} \ {0} :
             \A ms \in {collect_matchers(ns, cflags, n, 2)} :
               \A r \in {fold_matchers(ns, cflags, ms, 1, n)} :
                 \A i \in DOMAIN ms :
                   /\ ms[i] < n
                   /\ (ms[i] \in cflags) = (n \in cflags)
                   /\ ns[ms[i]].val = ns[n].val
                   /\ same_transitions(ns, n, ms[i])
                   /\ is_null(r.nodes[ms[i]])
                   /\ ms[i] \notin r.cflags
                   /\ \A j \in 1..Len(ns) : \A k \in Keys :
                        /\ r.nodes[j].tr[k] # ms[i]
                        /\ (ns[j].tr[k] = ms[i] /\ j \notin Range(ms)) =>
                             r.nodes[j].tr[k] = n
    ]_vars

\* the store and cursors optimize() hands to nullify_orphans
orphans_input(ns, cs) ==
  LET n1 == nullify_nullrefs(ns, cs)
      d1 == remove_duplicates(n1, cs)
      n2 == nullify_nullrefs(d1.nodes, d1.cursors)
  IN remove_duplicates(n2, d1.cursors)

\* C24: after nullify_orphans every node that is not reachable from the root
\* is structurally null, every reachable node is unchanged, and the cursor
\* list is exactly the previous cursors whose own node is reachable from the
\* root, in the same order; the pass reads no index outside the node store.
\* Stated of the pass as optimize() runs it, for either value of a bit read
\* outside the vector.
C24_OrphansPass ==
  [][(/\ lastop' = "optimize" /\ err = "ok"
      /\ stray_cursors(m_nodes, cursors) = {}) =>
       \A in \in {orphans_input(m_nodes, cursors)} :
         \A R \in {reachables(in.nodes, {1})} :
           \A oob \in BOOLEAN :
             \A out \in {nullify_orphans(in.nodes, in.cursors, oob)} :
               /\ \A i \in 1..Len(in.nodes) :
                    IF i \in R THEN out.nodes[i] = in.nodes[i]
                    ELSE is_null(out.nodes[i])
               /\ out.cursors = SelectSeq(in.cursors, LAMBDA c : c \in R)
               /\ \A i \in DOMAIN in.cursors : in.cursors[i] < Len(in.nodes)
    ]_vars

\* the nodes remove_blanks is to drop: structurally null, not the root, no
\* cursor on them
blank_nodes(ns, cs) ==
  {j \in 2..Len(ns) : is_null(ns[j]) /\ j \notin Range(cs)}

\* the old-to-new index mapping that dropping the nodes of D gives
new_index(D, j) ==
  IF j = 0 \/ j \in D THEN 0 ELSE j - Cardinality({d \in D : d < j})

\* C25: remove_blanks drops a node if and only if it is structurally null,
\* is not the root and no cursor points at it; every kept node keeps its
\* content with its transitions rewritten through the old-to-new index
\* mapping, every cursor is rewritten through the same mapping so that it
\* designates the same node as before, and the root stays at index 1.
\* Stated of the pass as optimize() runs it.
C25_BlanksPass ==
  [][(/\ lastop' = "optimize" /\ err = "ok"
      /\ stray_cursors(m_nodes, cursors) = {}) =>
       \A pre \in {orphans_input(m_nodes, cursors)} : \A oob \in BOOLEAN :
         \A in \in {nullify_orphans(pre.nodes, pre.cursors, oob)} :
           \A D \in {blank_nodes(in.nodes, in.cursors)} :
             \A out \in {remove_blanks(in.nodes, in.cursors)} :
               /\ Len(out.nodes) = Len(in.nodes) - Cardinality(D)
               /\ \A j \in (1..Len(in.nodes)) \ D :
                    /\ out.nodes[new_index(D, j)].val = in.nodes[j].val
                    /\ \A k \in Keys :
                         out.nodes[new_index(D, j)].tr[k]
                           = new_index(D, in.nodes[j].tr[k])
               /\ Len(out.cursors) = Len(in.cursors)
               /\ \A i \in DOMAIN in.cursors :
                    out.cursors[i] = new_index(D, in.cursors[i])
               /\ new_index(D, 1) = 1
    ]_vars

\* the default targets of the cursors that have a default edge, in order
kept_defaults(ns, cs) ==
  LET with == SelectSeq(cs, LAMBDA c : ns[c].tr[Def] # 0)
  IN [i \in 1..Len(with) |-> ns[with[i]].tr[Def]]

\* C26: match_default() allocates one new node D; each cursor with no
\* default edge gets default = D; for a cursor that already has a default
\* edge, Skip keeps the edge and adds its target to the new cursors,
\* Overwrite repoints the edge at D and Error panics after the loop; on
\* return the cursor list is [D] followed by the default targets preserved
\* under Skip.
C26_MatchDefault ==
  [][(/\ lastop' = "match_default" /\ err = "ok"
      /\ cursors_ok(m_nodes, cursors)) =>
       LET D == Len(m_nodes) + 1
           hit == {c \in Range(cursors) : m_nodes[c].tr[Def] # 0}
       IN /\ err' = IF on_conflict = "Error" /\ hit # {} THEN "panic"
                    ELSE "ok"
          /\ err' = "ok" =>
               /\ Len(m_nodes') = D
               /\ is_null(m_nodes'[D])
               /\ \A i \in 1..Len(m_nodes) :
                    /\ m_nodes'[i].val = m_nodes[i].val
                    /\ \A k \in Keys \ {Def} :
                         m_nodes'[i].tr[k] = m_nodes[i].tr[k]
                    /\ m_nodes'[i].tr[Def] =
                         IF i \in Range(cursors)
                            /\ (i \notin hit \/ on_conflict = "Overwrite")
                         THEN D ELSE m_nodes[i].tr[Def]
               /\ cursors' =
                    <<D>> \o (IF on_conflict = "Skip"
                              THEN kept_defaults(m_nodes, cursors) ELSE <<>>)
    ]_vars

\* match_default returned under Skip with a preserved default target among
\* the cursors
C26_Witness ==
  /\ lastop = "match_default" /\ err = "ok" /\ on_conflict = "Skip"
  /\ Len(cursors) >= 2


\* the number of leading 1 bits of the byte b, counted from bit 2^w down
RECURSIVE leading_ones(_, _)
leading_ones(b, w) ==
  IF w = 0 \/ (b \div w) % 2 = 0 THEN 0 ELSE 1 + leading_ones(b, w \div 2)

\* C27: the validator's state is the number of continuation bytes still
\* expected. An ASCII byte yields InterruptedSequence if the count is not zero
\* and is accepted otherwise; a header byte (top bits 11) yields
\* OverlappingSequence if the count is not zero and otherwise sets the count
\* to its number of leading 1 bits minus one; a continuation byte (top bits 10)
\* yields StrayByte if the count is zero and otherwise decrements it; final()
\* yields TruncatedSequence iff the count is not zero; the count never goes
\* below 0 and an error leaves it unchanged.
C27_ValidatorRules ==
  [][
      /\ (uv' # uv /\ uv'.op = "next") =>
          LET c == uv.input[uv.pos]
              top == c \div 64
          IN /\ (top \in {0, 1}) =>
                  /\ uv'.error = IF uv.count # 0 THEN "InterruptedSequence"
                                 ELSE "None"
                  /\ uv'.count = uv.count
             /\ (top = 3) =>
                  IF uv.count # 0
                  THEN uv'.error = "OverlappingSequence"
                  ELSE /\ uv'.error = "None"
                       /\ uv'.count = leading_ones(c, 128) - 1
             /\ (top = 2) =>
                  IF uv.count = 0
                  THEN uv'.error = "StrayByte"
                  ELSE /\ uv'.error = "None"
                       /\ uv'.count = uv.count - 1
             /\ (uv'.error # "None") => (uv'.count = uv.count)
      /\ (uv'.op = "final") =>
          /\ uv'.error = "TruncatedSequence" <=> uv.count # 0
          /\ uv'.error \in {"TruncatedSequence", "None"}
          /\ uv'.count = uv.count
      /\ uv'.count >= 0
    ]_vars

\* a validator that met a continuation byte while it expected two, then an
\* ASCII byte while it still expected one, and was asked final()
C27_Witness ==
  /\ uv.op = "final" /\ uv.error = "TruncatedSequence" /\ uv.count = 1
  /\ uv.input = <<236, 131, 97>>


\* C28: for every machine and every finite input the loop over find_many
\* terminates: a loop that was started reaches the point where it != end()
\* fails and the loop is left.
C28_FindManyTerminates == (gen.op = "begin") ~> (gen.op = "end")

\* a loop that yielded a match and was left
C28_Witness == gen.op = "end" /\ Len(gen.out) >= 1


\* C29: optimize() terminates on every machine reachable by public builder
\* calls: an optimize() that was entered leaves the while loop of
\* nullify_nullrefs, the loop of remove_duplicates and the while loop of
\* nullify_orphans, each after finitely many passes, and is then no longer at
\* work: it returned, or the program ended at the write of the flag of a
\* cursor that lies outside the store.
C29_OptimizeTerminates == (opt.stage # "idle") ~> (opt.stage = "idle")

\* optimize() returned on a machine with a self-loop
C29_Witness ==
  /\ lastop = "optimize" /\ opt.stage = "idle" /\ err = "ok"
  /\ \E i \in 1..Len(m_nodes) : \E k \in Keys : m_nodes[i].tr[k] = i


\* C30: in cursor_discreet_transition, for a cursor that has a default edge
\* and already has a transition on key, make_nonambiguous_link returns at
\* least one replacement: the assertion "No replacements were created for the
\* default_idx watchnode" fails in no state reachable by public builder
\* calls, builds continued after optimize() included.
C30_ReplacementsCreated ==
  [][(/\ err = "ok" /\ lastop' = "match_any_of"
      /\ cursors_ok(m_nodes, cursors)) => err' # "assert"]_vars

\* match_any_of returned on a cursor that had a default edge and a transition
\* on the key
C30_Witness ==
  /\ lastop = "match_any_of" /\ err = "ok"
  /\ \E i \in 1..Len(m_nodes) :
       /\ m_nodes[i].tr[Def] # 0 /\ m_nodes[i].tr[97] # 0
       /\ m_nodes[i].tr[97] \in Range(cursors)


\* C31: for every machine built with any back_by values and every input, the
\* range find reports satisfies 0 <= match_begin <= match_end <= len(input)
\* after back_by was subtracted: the subtraction takes match_end neither
\* below match_begin nor below 0.
C31_FindRangeInInput ==
  \A x \in UNION {[1..k -> {97, 98}] : k \in 0..MaxLen} :
    \A r \in {find(m_nodes, is_utf8, x)} :
      r.kind = "match" => 0 <= r.b /\ r.b <= r.e /\ r.e <= Len(x)


\* C32: on a UTF-8 machine find(x) reports a UTF-8 error only if x contains a
\* malformed byte sequence: for every well-formed input the result is a match
\* or a no-match, also when the scan stops at a dead end after a match was
\* recorded.
C32_FindErrorOnlyIfMalformed ==
  is_utf8 =>
    \A x \in Inputs :
      ~Malformed(x) => find(m_nodes, is_utf8, x).kind # "error"

============================================================================
